---- MODULE Spec2Model ----
(***************************************************************************)
(* Chess rules engine and search of Chess-Engine-in-C: the position model, *)
(* the attack predicates, the validated move entry points, the terminal    *)
(* detector, the static evaluator and the alpha-beta search.               *)
(* Rows and columns are 0..7 as in the source (row 0 is black's home row,  *)
(* row 7 is white's home row); a board is a tuple of 8 rows of 8 cells.    *)
(***************************************************************************)
EXTENDS Integers, Sequences, FiniteSets, TLC

\* ------------------------------------------------------------------------
\* board.h: sides, piece codes, pawn rows, direction arrays
\* ------------------------------------------------------------------------
WHITE == "WHITE"
BLACK == "BLACK"

EMPTY == 0
WHITE_PAWN == 1
WHITE_KNIGHT == 2
WHITE_BISHOP == 3
WHITE_ROOK == 4
WHITE_QUEEN == 5
WHITE_KING == 6
BLACK_PAWN == -1
BLACK_KNIGHT == -2
BLACK_BISHOP == -3
BLACK_ROOK == -4
BLACK_QUEEN == -5
BLACK_KING == -6

WHITE_PAWN_STARTING_ROWN == 6
BLACK_PAWN_STARTING_ROWN == 1

knight_move ==
  << <<-1, -2>>, <<-1, 2>>, <<1, -2>>, <<1, 2>>,
     <<-2, -1>>, <<-2, 1>>, <<2, -1>>, <<2, 1>> >>
bishop_direction == << <<1, 1>>, <<-1, 1>>, <<1, -1>>, <<-1, -1>> >>
rook_direction == << <<1, 0>>, <<-1, 0>>, <<0, 1>>, <<0, -1>> >>
every_direction ==
  << <<1, 1>>, <<-1, 1>>, <<1, -1>>, <<-1, -1>>,
     <<0, 1>>, <<1, 0>>, <<-1, 0>>, <<0, -1>> >>

INT_MAX == 2147483647
INT_MIN == (-2147483647) - 1

Idx == 0..7

InBoard(i, j) == i >= 0 /\ i < 8 /\ j >= 0 /\ j < 8

\* position.board[i][j]
At(board, i, j) == board[i + 1][j + 1]

\* board[i][j] = v
SetCell(board, i, j, v) == [board EXCEPT ![i + 1][j + 1] = v]

Opponent(s) == IF s = WHITE THEN BLACK ELSE WHITE

AllFalse8 == [n \in 1..8 |-> FALSE]

\* flags[n] for the 0-based file or wing n
Flag(flags, n) == flags[n + 1]

SetFlag(flags, n, v) == [flags EXCEPT ![n + 1] = v]

\* ------------------------------------------------------------------------
\* board.cpp: occupancy helpers
\* ------------------------------------------------------------------------
square_occupied_by_opponent(board, i, j, s) ==
  IF s = WHITE THEN At(board, i, j) < 0 ELSE At(board, i, j) > 0

move_piece(pos, start_i, start_j, destination_i, destination_j) ==
  [pos EXCEPT !.board =
     SetCell(SetCell(pos.board, destination_i, destination_j,
                     At(pos.board, start_i, start_j)),
             start_i, start_j, 0)]

reset_en_passant(pos, s) ==
  IF s = WHITE
    THEN [pos EXCEPT !.pawn_two_squares_white = AllFalse8]
    ELSE [pos EXCEPT !.pawn_two_squares_black = AllFalse8]

\* ------------------------------------------------------------------------
\* board.cpp: per-piece attack predicates
\* ------------------------------------------------------------------------
under_pawn_control(board, start_i, start_j, target_i, target_j) ==
  LET dir == IF At(board, start_i, start_j) < 0 THEN -1 ELSE 1
  IN  \/ (target_i + dir = start_i /\ start_j = target_j + 1)
      \/ (target_i + dir = start_i /\ start_j = target_j - 1)

under_knight_control(start_i, start_j, target_i, target_j) ==
  \E m \in 1..8 :
     /\ target_i = start_i + knight_move[m][1]
     /\ target_j = start_j + knight_move[m][2]

\* the while loop shared by the bishop, rook and queen predicates: walk
\* from (path_i, path_j) in direction (d_i, d_j); reaching the target wins
\* before the blocked test, so an occupied target is still controlled
RECURSIVE SlidePath(_, _, _, _, _, _, _)
SlidePath(board, path_i, path_j, d_i, d_j, target_i, target_j) ==
  IF ~InBoard(path_i, path_j) THEN FALSE
  ELSE IF path_i = target_i /\ path_j = target_j THEN TRUE
  ELSE IF At(board, path_i, path_j) # 0 THEN FALSE
  ELSE SlidePath(board, path_i + d_i, path_j + d_j, d_i, d_j,
                 target_i, target_j)

under_bishop_control(board, start_i, start_j, target_i, target_j) ==
  \E f \in 1..4 :
     SlidePath(board, start_i + bishop_direction[f][1],
               start_j + bishop_direction[f][2],
               bishop_direction[f][1], bishop_direction[f][2],
               target_i, target_j)

under_rook_control(board, start_i, start_j, target_i, target_j) ==
  \E f \in 1..4 :
     SlidePath(board, start_i + rook_direction[f][1],
               start_j + rook_direction[f][2],
               rook_direction[f][1], rook_direction[f][2],
               target_i, target_j)

under_queen_control(board, start_i, start_j, target_i, target_j) ==
  \E f \in 1..8 :
     SlidePath(board, start_i + every_direction[f][1],
               start_j + every_direction[f][2],
               every_direction[f][1], every_direction[f][2],
               target_i, target_j)

under_king_control(start_i, start_j, target_i, target_j) ==
  \E f \in 1..8 :
     /\ target_i = start_i + every_direction[f][1]
     /\ target_j = start_j + every_direction[f][2]

\* is square (i, j) under control by any piece of side s
under_control(board, i, j, s) ==
  LET sign == IF s = BLACK THEN -1 ELSE 1
  IN  \E m \in Idx, n \in Idx :
        LET p == At(board, m, n) * sign
        IN  /\ p > 0
            /\ CASE p = WHITE_PAWN -> under_pawn_control(board, m, n, i, j)
                 [] p = WHITE_KNIGHT -> under_knight_control(m, n, i, j)
                 [] p = WHITE_BISHOP -> under_bishop_control(board, m, n, i, j)
                 [] p = WHITE_ROOK -> under_rook_control(board, m, n, i, j)
                 [] p = WHITE_QUEEN -> under_queen_control(board, m, n, i, j)
                 [] OTHER -> under_king_control(m, n, i, j)

\* a test that finds no king in check
king_is_never_in_check(board, s) == FALSE

\* Board::king_is_in_check
king_is_in_check(board, s) ==
  LET king == IF s = BLACK THEN BLACK_KING ELSE WHITE_KING
  IN  \E m \in Idx, n \in Idx :
        /\ At(board, m, n) = king
        /\ under_control(board, m, n, Opponent(s))

\* ------------------------------------------------------------------------
\* board.cpp: validated move entry points
\* ------------------------------------------------------------------------
\* Board::pawn_move for a white pawn: the verdict, and the values it leaves
\* in the members promote_pawn and en_passant_index (both reset by the
\* caller before the call)
pawn_move(pos, start_i, start_j, target_i, target_j) ==
  LET starting_row == WHITE_PAWN_STARTING_ROWN
      board == pos.board
      no == [ok |-> FALSE, promote_pawn |-> FALSE, en_passant_index |-> -1]
  IN  IF /\ target_i = start_i - 1 /\ start_j = target_j
         /\ At(board, target_i, target_j) = 0
        THEN [ok |-> TRUE, promote_pawn |-> (target_i = 0),
              en_passant_index |-> -1]
      ELSE IF /\ start_i = starting_row /\ start_i - 2 = target_i
              /\ start_j = target_j
              /\ At(board, target_i + 1, target_j) = 0
              /\ At(board, target_i, target_j) = 0
        THEN [ok |-> TRUE, promote_pawn |-> FALSE,
              en_passant_index |-> target_j]
      ELSE IF /\ start_i = 3 /\ target_i = 2
              /\ (target_j = start_j - 1 \/ target_j = start_j + 1)
              /\ Flag(pos.pawn_two_squares_black, target_j)
        THEN [ok |-> TRUE, promote_pawn |-> FALSE, en_passant_index |-> -1]
      ELSE IF /\ start_i - 1 = target_i
              /\ (target_j + 1 = start_j \/ target_j - 1 = start_j)
              /\ At(board, target_i, target_j) < 0
        THEN [ok |-> TRUE, promote_pawn |-> (target_i = 0),
              en_passant_index |-> -1]
      ELSE no

\* a promotion that leaves the pawn on the target square
PromotionDeclined(user_input) == WHITE_PAWN

\* the piece a promotion callback answer stands for ('q' and anything
\* unknown give a queen)
PromotionPiece(user_input) ==
  CASE user_input = "k" -> WHITE_KNIGHT
    [] user_input = "b" -> WHITE_BISHOP
    [] user_input = "r" -> WHITE_ROOK
    [] OTHER -> WHITE_QUEEN

\* the same answers for Human::handle_black_move
BlackPromotionPiece(user_input) ==
  CASE user_input = "k" -> BLACK_KNIGHT
    [] user_input = "b" -> BLACK_BISHOP
    [] user_input = "r" -> BLACK_ROOK
    [] OTHER -> BLACK_QUEEN

\* a castling that moves the king and leaves the rook in its corner
castle_king_only(board, start_i, start_j, target_i, target_j, rook_j, crossed_j, rook) ==
  SetCell(SetCell(board, target_i, target_j, At(board, start_i, start_j)),
          start_i, start_j, 0)

\* the four board assignments of a castling branch: the king goes to the
\* target, its square and the corner (start_i, rook_j) are emptied, and a
\* rook is put on the crossed square (start_i, crossed_j)
castle(board, start_i, start_j, target_i, target_j, rook_j, crossed_j, rook) ==
  SetCell(SetCell(SetCell(SetCell(board,
      target_i, target_j, At(board, start_i, start_j)),
      start_i, start_j, 0), start_i, rook_j, 0), start_i, crossed_j, rook)

\* en-passant flags of white left all false by an accepted move
WhiteFlagsNeverSet(en_passant_index) == AllFalse8

\* the en-passant flags of white that handle_white_move stores on
\* acceptance: all reset, then the file of a two-square advance set
WhiteFlagsAfter(en_passant_index) ==
  IF en_passant_index # -1
    THEN SetFlag(AllFalse8, en_passant_index, TRUE)
    ELSE AllFalse8

\* a final legality test that lets every tentative position through
KingSafeUnchecked(possible_board, s) == TRUE

\* the final legality test of handle_white_move and is_black_move_legal:
\* the mover's king must not be in check in the tentative position
KingSafe(possible_board, s) == ~king_is_in_check(possible_board, s)

\* the switch of handle_white_move: the tentative position and whether
\* some branch found the move geometrically legal
WhiteTentative(pos, start_i, start_j, target_i, target_j) ==
  LET board == pos.board
      piece == At(board, start_i, start_j)
      moved == move_piece(pos, start_i, start_j, target_i, target_j)
      none == [ok |-> FALSE, pos |-> pos, promote_pawn |-> FALSE,
               en_passant_index |-> -1]
      yes(p) == [ok |-> TRUE, pos |-> p, promote_pawn |-> FALSE,
                 en_passant_index |-> -1]
  IN  CASE piece = WHITE_PAWN ->
             LET pm == pawn_move(pos, start_i, start_j, target_i, target_j)
             IN  IF ~pm.ok
                   THEN [none EXCEPT !.promote_pawn = pm.promote_pawn,
                                     !.en_passant_index = pm.en_passant_index]
                   ELSE [ok |-> TRUE,
                         pos |->
                           IF /\ start_i = 3 /\ target_i = 2
                              /\ (target_j - start_j = 1 \/ start_j - target_j = 1)
                              /\ At(board, start_i, target_j) = BLACK_PAWN
                              /\ Flag(pos.pawn_two_squares_black, target_j)
                             THEN [moved EXCEPT !.board =
                                     SetCell(moved.board, start_i, target_j, 0)]
                             ELSE moved,
                         promote_pawn |-> pm.promote_pawn,
                         en_passant_index |-> pm.en_passant_index]
        [] piece = WHITE_KNIGHT ->
             IF under_knight_control(start_i, start_j, target_i, target_j)
               THEN yes(moved) ELSE none
        [] piece = WHITE_BISHOP ->
             IF under_bishop_control(board, start_i, start_j, target_i, target_j)
               THEN yes(moved) ELSE none
        [] piece = WHITE_ROOK ->
             IF under_rook_control(board, start_i, start_j, target_i, target_j)
               THEN yes([moved EXCEPT !.can_castle_white =
                          [w \in 1..2 |->
                             IF (w = 1 /\ start_i = 7 /\ start_j = 0)
                                \/ (w = 2 /\ start_i = 7 /\ start_j = 7)
                               THEN FALSE ELSE pos.can_castle_white[w]]])
               ELSE none
        [] piece = WHITE_QUEEN ->
             IF under_queen_control(board, start_i, start_j, target_i, target_j)
               THEN yes(moved) ELSE none
        [] piece = WHITE_KING ->
             IF under_king_control(start_i, start_j, target_i, target_j)
               THEN yes([moved EXCEPT !.can_castle_white = <<FALSE, FALSE>>])
             ELSE IF /\ start_i = 7 /\ start_j = 4 /\ target_i = 7 /\ target_j = 6
                     /\ At(board, 7, 5) = 0 /\ At(board, 7, 6) = 0
                     /\ ~under_control(board, 7, 4, BLACK)
                     /\ ~under_control(board, 7, 5, BLACK)
                     /\ ~under_control(board, 7, 6, BLACK)
                     /\ Flag(pos.can_castle_white, 1)
               THEN yes([pos EXCEPT
                          !.board = castle(board, start_i, start_j, target_i, target_j,
                                            7, 5, WHITE_ROOK),
                          !.can_castle_white = <<FALSE, FALSE>>])
             ELSE IF /\ start_i = 7 /\ start_j = 4 /\ target_i = 7 /\ target_j = 2
                     /\ At(board, 7, 1) = 0 /\ At(board, 7, 2) = 0
                     /\ At(board, 7, 3) = 0
                     /\ ~under_control(board, 7, 2, BLACK)
                     /\ ~under_control(board, 7, 3, BLACK)
                     /\ ~under_control(board, 7, 4, BLACK)
                     /\ Flag(pos.can_castle_white, 0)
               THEN yes([pos EXCEPT
                          !.board = castle(board, start_i, start_j, target_i, target_j,
                                            0, 3, WHITE_ROOK),
                          !.can_castle_white = <<FALSE, FALSE>>])
             ELSE none
        [] OTHER -> none

\* the end of handle_white_move, given the outcome t of its switch: the
\* final legality test, the copy into the stored position, the en-passant
\* flags and the promotion
WhiteFinish(pos, target_i, target_j, user_input, t) ==
  IF t.ok /\ KingSafe(t.pos.board, WHITE)
    THEN [ok |-> TRUE,
          pos |-> [board |-> IF t.promote_pawn
                               THEN SetCell(t.pos.board, target_i, target_j,
                                            PromotionPiece(user_input))
                               ELSE t.pos.board,
                   pawn_two_squares_black |-> t.pos.pawn_two_squares_black,
                   pawn_two_squares_white |->
                     WhiteFlagsAfter(t.en_passant_index),
                   can_castle_white |-> t.pos.can_castle_white,
                   can_castle_black |-> t.pos.can_castle_black],
          promote_pawn |-> t.promote_pawn,
          en_passant_index |-> t.en_passant_index,
          asked |-> t.promote_pawn, move_is_legal |-> TRUE]
    ELSE [ok |-> FALSE, pos |-> pos, promote_pawn |-> t.promote_pawn,
          en_passant_index |-> t.en_passant_index, asked |-> FALSE,
          move_is_legal |-> t.ok]

\* Board::handle_white_move on the stored position pos with the promotion
\* callback answering user_input: whether it accepted (a non-empty
\* notation is returned), the stored position afterwards, the members
\* promote_pawn and en_passant_index afterwards, and whether the callback
\* was consulted
handle_white_move(pos, start_i, start_j, target_i, target_j, user_input) ==
  IF At(pos.board, target_i, target_j) > 0
    THEN [ok |-> FALSE, pos |-> pos, promote_pawn |-> FALSE,
          en_passant_index |-> -1, asked |-> FALSE, move_is_legal |-> FALSE]
    ELSE WhiteFinish(pos, target_i, target_j, user_input,
                     WhiteTentative(pos, start_i, start_j, target_i, target_j))

\* the switch of is_black_move_legal: the tentative position
\* possible_position, whether some branch found the move legal, and the
\* local en_passant_index
BlackTentative(pos, start_i, start_j, target_i, target_j) ==
  LET board == pos.board
      piece == At(board, start_i, start_j)
      moved == move_piece(pos, start_i, start_j, target_i, target_j)
      none == [ok |-> FALSE, pos |-> pos, en_passant_index |-> -1]
      yes(p) == [ok |-> TRUE, pos |-> p, en_passant_index |-> -1]
  IN  CASE piece = BLACK_PAWN ->
             IF target_i = start_i + 1 /\ target_j = start_j
               THEN IF At(board, target_i, target_j) = 0
                      THEN yes(moved) ELSE none
             ELSE IF start_i = 1 /\ target_i = start_i + 2 /\ start_j = target_j
               THEN IF /\ At(board, target_i - 1, target_j) = 0
                       /\ At(board, target_i, target_j) = 0
                      THEN [ok |-> TRUE,
                            pos |-> [moved EXCEPT !.pawn_two_squares_black =
                                       SetFlag(AllFalse8, target_j, TRUE)],
                            en_passant_index |-> target_j]
                      ELSE none
             ELSE IF /\ start_i = 4 /\ target_i = 5
                     /\ (target_j = start_j - 1 \/ target_j = start_j + 1)
                     /\ Flag(pos.pawn_two_squares_white, target_j)
               THEN yes([moved EXCEPT !.board =
                          SetCell(moved.board, 4, target_j, 0)])
             ELSE IF /\ target_i = start_i + 1
                     /\ (target_j = start_j - 1 \/ target_j = start_j + 1)
                     /\ At(board, target_i, target_j) > 0
               THEN yes(moved)
             ELSE none
        [] piece = BLACK_KNIGHT ->
             IF under_knight_control(start_i, start_j, target_i, target_j)
               THEN yes(moved) ELSE none
        [] piece = BLACK_BISHOP ->
             IF under_bishop_control(board, start_i, start_j, target_i, target_j)
               THEN yes(moved) ELSE none
        [] piece = BLACK_ROOK ->
             IF under_rook_control(board, start_i, start_j, target_i, target_j)
               THEN yes([moved EXCEPT !.can_castle_black =
                          [w \in 1..2 |->
                             IF (w = 1 /\ start_i = 0 /\ start_j = 0)
                                \/ (w = 2 /\ start_i = 0 /\ start_j = 7)
                               THEN FALSE ELSE pos.can_castle_black[w]]])
               ELSE none
        [] piece = BLACK_QUEEN ->
             IF under_queen_control(board, start_i, start_j, target_i, target_j)
               THEN yes(moved) ELSE none
        [] piece = BLACK_KING ->
             IF under_king_control(start_i, start_j, target_i, target_j)
               THEN yes([moved EXCEPT !.can_castle_black = <<FALSE, FALSE>>])
             ELSE IF /\ start_i = 0 /\ start_j = 4 /\ target_i = 0 /\ target_j = 6
                     /\ At(board, 0, 5) = 0 /\ At(board, 0, 6) = 0
                     /\ ~under_control(board, 0, 4, WHITE)
                     /\ ~under_control(board, 0, 5, WHITE)
                     /\ ~under_control(board, 0, 6, WHITE)
                     /\ Flag(pos.can_castle_black, 1)
               THEN yes([pos EXCEPT
                          !.board = castle(board, start_i, start_j, target_i, target_j,
                                            7, 5, BLACK_ROOK),
                          !.can_castle_black = <<FALSE, FALSE>>])
             ELSE IF /\ start_i = 0 /\ start_j = 4 /\ target_i = 0 /\ target_j = 2
                     /\ At(board, 0, 1) = 0 /\ At(board, 0, 2) = 0
                     /\ At(board, 0, 3) = 0
                     /\ ~under_control(board, 0, 2, WHITE)
                     /\ ~under_control(board, 0, 3, WHITE)
                     /\ ~under_control(board, 0, 4, WHITE)
                     /\ Flag(pos.can_castle_black, 0)
               THEN yes([pos EXCEPT
                          !.board = castle(board, start_i, start_j, target_i, target_j,
                                            0, 3, BLACK_ROOK),
                          !.can_castle_black = <<FALSE, FALSE>>])
             ELSE none
        [] OTHER -> none

\* an end of is_black_move_legal that copies the tentative position into
\* the caller's position whatever the verdict
BlackCommitAlways(pos, t) ==
  [ok |-> t.ok /\ KingSafe(t.pos.board, BLACK), position |-> t.pos,
   possible_position |-> t.pos, move_is_legal |-> t.ok]

\* the end of is_black_move_legal, given the outcome t of its switch: the
\* final legality test and the commit into the caller's position
BlackCommit(pos, t) ==
  IF t.ok /\ KingSafe(t.pos.board, BLACK)
    THEN [ok |-> TRUE,
          position |->
            [t.pos EXCEPT !.pawn_two_squares_white =
               IF t.en_passant_index # -1
                 THEN SetFlag(t.pos.pawn_two_squares_white,
                              t.en_passant_index, TRUE)
                 ELSE t.pos.pawn_two_squares_white],
          possible_position |-> t.pos, move_is_legal |-> TRUE]
    ELSE [ok |-> FALSE, position |-> pos, possible_position |-> t.pos,
          move_is_legal |-> t.ok]

\* Board::is_black_move_legal(position, ..., possible_position): the
\* verdict, the caller's position afterwards (the move is committed to it
\* when the verdict is true) and possible_position afterwards
is_black_move_legal(pos, start_i, start_j, target_i, target_j) ==
  BlackCommit(pos, BlackTentative(pos, start_i, start_j, target_i, target_j))

\* the part of Human::handle_black_move after the call r of
\* is_black_move_legal: the second check test, the promotion and the
\* assignment of possible_position to the position
BlackFinish(to_x, to_y, user_input, r) ==
  IF ~r.ok \/ king_is_in_check(r.possible_position.board, BLACK)
    THEN [ok |-> FALSE, pos |-> r.position, committed |-> r.position,
          asked |-> FALSE, move_is_legal |-> r.move_is_legal]
    ELSE [ok |-> TRUE,
          pos |-> IF At(r.possible_position.board, to_x, to_y) = BLACK_PAWN
                     /\ to_x = 7
                    THEN [r.possible_position EXCEPT !.board =
                            SetCell(r.possible_position.board, to_x, to_y,
                                    BlackPromotionPiece(user_input))]
                    ELSE r.possible_position,
          committed |-> r.position,
          asked |-> At(r.possible_position.board, to_x, to_y) = BLACK_PAWN
                    /\ to_x = 7,
          move_is_legal |-> TRUE]

\* Human::handle_black_move on position pos with the promotion answer
\* user_input: accepted (a non-empty notation is returned), the position
\* afterwards, the position as is_black_move_legal committed it, and
\* whether the promotion answer was used
handle_black_move(pos, from_x, from_y, to_x, to_y, user_input) ==
  IF At(pos.board, to_x, to_y) < 0
    THEN [ok |-> FALSE, pos |-> pos, committed |-> pos, asked |-> FALSE,
          move_is_legal |-> FALSE]
    ELSE BlackFinish(to_x, to_y, user_input,
                     is_black_move_legal(pos, from_x, from_y, to_x, to_y))

\* ------------------------------------------------------------------------
\* board.cpp: terminal detection
\* ------------------------------------------------------------------------
\* the squares a while loop of the sliding pieces visits from
\* (path_i, path_j) in direction (d_i, d_j): every square up to and
\* including the first occupied one, in the order visited
RECURSIVE Ray(_, _, _, _, _)
Ray(board, path_i, path_j, d_i, d_j) ==
  IF ~InBoard(path_i, path_j) THEN <<>>
  ELSE IF At(board, path_i, path_j) # 0 THEN << <<path_i, path_j>> >>
  ELSE << <<path_i, path_j>> >>
       \o Ray(board, path_i + d_i, path_j + d_j, d_i, d_j)

\* the squares visited by the loops over directions dirs from (m, n)
RaySquares(board, m, n, dirs) ==
  UNION { LET r == Ray(board, m + dirs[f][1], n + dirs[f][2],
                       dirs[f][1], dirs[f][2])
          IN  {r[x] : x \in 1..Len(r)} : f \in 1..Len(dirs) }

\* the in-board squares one step of dirs away from (m, n)
StepSquares(m, n, dirs) ==
  { sq \in { <<m + dirs[f][1], n + dirs[f][2]>> : f \in 1..Len(dirs) } :
      InBoard(sq[1], sq[2]) }

\* Board::is_checkmate(p, s): true unless one of the moves it tries leaves
\* a board on which the king of s is not in check
is_checkmate(p, s) ==
  LET dir == IF s = BLACK THEN 1 ELSE -1
      startingRank == IF s = BLACK THEN 1 ELSE 6
      enPassantRank == IF s = BLACK THEN 4 ELSE 3
      en_passant == IF s = BLACK THEN p.pawn_two_squares_white
                                 ELSE p.pawn_two_squares_black
      sign == IF s = BLACK THEN -1 ELSE 1
      pawn == WHITE_PAWN * sign
      free(sq) == square_occupied_by_opponent(p.board, sq[1], sq[2], s)
                  \/ At(p.board, sq[1], sq[2]) = 0
      put(m, n, i, j, piece) == SetCell(SetCell(p.board, m, n, 0), i, j, piece)
      safe(possible_board) == ~king_is_in_check(possible_board, s)
      sliderEscapes(m, n, dirs, piece) ==
        \E sq \in RaySquares(p.board, m, n, dirs) :
           free(sq) /\ safe(put(m, n, sq[1], sq[2], piece))
      stepEscapes(m, n, dirs, piece) ==
        \E sq \in StepSquares(m, n, dirs) :
           free(sq) /\ safe(put(m, n, sq[1], sq[2], piece))
      pawnEscapes(m, n) ==
        \/ At(p.board, m + dir, n) = 0 /\ safe(put(m, n, m + dir, n, pawn))
        \/ /\ startingRank = m
           /\ At(p.board, m + dir, n) = 0
           /\ At(p.board, m + 2 * dir, n) = 0
           /\ safe(put(m, n, m + 2 * dir, n, pawn))
        \/ /\ n # 0
           /\ square_occupied_by_opponent(p.board, m + dir, n - 1, s)
           /\ safe(put(m, n, m + dir, n - 1, pawn))
        \/ /\ n # 7
           /\ square_occupied_by_opponent(p.board, m + dir, n + 1, s)
           /\ safe(put(m, n, m + dir, n + 1, pawn))
        \/ /\ n # 0 /\ m = enPassantRank /\ Flag(en_passant, n - 1)
           /\ safe(SetCell(SetCell(SetCell(p.board, m, n, 0), m, n - 1, 0),
                           m + dir, n - 1, pawn))
        \/ /\ n # 7 /\ m = enPassantRank /\ Flag(en_passant, n + 1)
           /\ safe(SetCell(SetCell(SetCell(p.board, m, n, 0), m, n + 1, 0),
                           m + dir, n + 1, pawn))
      escapes(m, n) ==
        LET c == At(p.board, m, n) * sign
        IN  CASE c = WHITE_KING -> stepEscapes(m, n, every_direction, c * sign)
              [] c = WHITE_PAWN -> pawnEscapes(m, n)
              [] c = WHITE_KNIGHT -> stepEscapes(m, n, knight_move, c * sign)
              [] c = WHITE_ROOK -> sliderEscapes(m, n, rook_direction, c * sign)
              [] c = WHITE_BISHOP ->
                   sliderEscapes(m, n, bishop_direction, c * sign)
              [] c = WHITE_QUEEN ->
                   sliderEscapes(m, n, every_direction, c * sign)
              [] OTHER -> FALSE
  IN  ~ \E m \in Idx, n \in Idx : escapes(m, n)

\* Board::is_stalemate(p, s): false when s is in check, and false as soon
\* as one of the moves it looks at exists
is_stalemate(p, s) ==
  LET dir == IF s = BLACK THEN 1 ELSE -1
      enPassantRank == IF s = BLACK THEN 4 ELSE 3
      en_passant == IF s = BLACK THEN p.pawn_two_squares_white
                                 ELSE p.pawn_two_squares_black
      opponent == IF s = BLACK THEN WHITE ELSE BLACK
      sign == IF s = BLACK THEN -1 ELSE 1
      free(sq) == square_occupied_by_opponent(p.board, sq[1], sq[2], s)
                  \/ At(p.board, sq[1], sq[2]) = 0
      kingMoves(m, n) ==
        \E sq \in StepSquares(m, n, every_direction) :
           free(sq) /\ ~under_control(p.board, sq[1], sq[2], opponent)
      pawnMoves(m, n) ==
        \/ At(p.board, m + dir, n) = 0
        \/ n # 0 /\ square_occupied_by_opponent(p.board, m + dir, n - 1, s)
        \/ n # 7 /\ square_occupied_by_opponent(p.board, m + dir, n + 1, s)
        \/ n # 0 /\ m = enPassantRank /\ Flag(en_passant, n - 1)
        \/ n # 7 /\ m = enPassantRank /\ Flag(en_passant, n + 1)
      moves(m, n) ==
        LET c == At(p.board, m, n) * sign
        IN  CASE c = WHITE_KING -> kingMoves(m, n)
              [] c = WHITE_PAWN -> pawnMoves(m, n)
              [] c = WHITE_KNIGHT ->
                   \E sq \in StepSquares(m, n, knight_move) : free(sq)
              [] c = WHITE_ROOK ->
                   \E sq \in RaySquares(p.board, m, n, rook_direction) :
                      free(sq)
              [] c = WHITE_BISHOP ->
                   \E sq \in RaySquares(p.board, m, n, bishop_direction) :
                      free(sq)
              [] c = WHITE_QUEEN ->
                   \E sq \in RaySquares(p.board, m, n, every_direction) :
                      free(sq)
              [] OTHER -> FALSE
  IN  IF king_is_in_check(p.board, s) THEN FALSE
      ELSE ~ \E m \in Idx, n \in Idx : moves(m, n)

\* Engine::game_is_over and Human::game_is_over
game_is_over(position) ==
  \/ is_checkmate(position, WHITE)
  \/ is_checkmate(position, BLACK)
  \/ is_stalemate(position, WHITE)
  \/ is_stalemate(position, BLACK)

\* ------------------------------------------------------------------------
\* evaluation.cpp: the piece-square tables set by
\* initialize_piece_square_tables, indexed [row + 1][column + 1]
\* ------------------------------------------------------------------------
PAWN_TABLE_WHITE ==
  << <<0, 0, 0, 0, 0, 0, 0, 0>>,
     <<50, 50, 50, 50, 50, 50, 50, 50>>,
     <<10, 10, 20, 30, 30, 20, 10, 10>>,
     <<5, 5, 10, 25, 25, 10, 5, 5>>,
     <<0, 0, 0, 20, 20, 0, 0, 0>>,
     <<5, -5, -10, 0, 0, -10, -5, 5>>,
     <<5, 10, 10, -20, -20, 10, 10, 5>>,
     <<0, 0, 0, 0, 0, 0, 0, 0>> >>

KNIGHT_TABLE_WHITE ==
  << <<-50, -40, -30, -30, -30, -30, -40, -50>>,
     <<-40, -20, 0, 0, 0, 0, -20, -40>>,
     <<-30, 0, 10, 15, 15, 10, 0, -30>>,
     <<-30, 5, 15, 20, 20, 15, 5, -30>>,
     <<-30, 0, 15, 20, 20, 15, 0, -30>>,
     <<-30, 5, 10, 15, 15, 10, 5, -30>>,
     <<-40, -20, 0, 5, 5, 0, -20, -40>>,
     <<-50, -40, -30, -30, -30, -30, -40, -50>> >>

BISHOP_TABLE_WHITE ==
  << <<-20, -10, -10, -10, -10, -10, -10, -20>>,
     <<-10, 0, 0, 0, 0, 0, 0, -10>>,
     <<-10, 0, 5, 10, 10, 5, 0, -10>>,
     <<-10, 5, 5, 10, 10, 5, 5, -10>>,
     <<-10, 0, 10, 10, 10, 10, 0, -10>>,
     <<-10, 10, 10, 10, 10, 10, 10, -10>>,
     <<-10, 5, 0, 0, 0, 0, 5, -10>>,
     <<-20, -10, -10, -10, -10, -10, -10, -20>> >>

ROOK_TABLE_WHITE ==
  << <<0, 0, 0, 0, 0, 0, 0, 0>>,
     <<5, 10, 10, 10, 10, 10, 10, 5>>,
     <<-5, 0, 0, 0, 0, 0, 0, -5>>,
     <<-5, 0, 0, 0, 0, 0, 0, -5>>,
     <<-5, 0, 0, 0, 0, 0, 0, -5>>,
     <<-5, 0, 0, 0, 0, 0, 0, -5>>,
     <<-5, 0, 0, 0, 0, 0, 0, -5>>,
     <<0, 0, 0, 5, 5, 3, 0, 0>> >>

QUEEN_TABLE_WHITE ==
  << <<-20, -10, -10, -5, -5, -10, -10, -20>>,
     <<-10, 0, 0, 0, 0, 0, 0, -10>>,
     <<-10, 0, 5, 5, 5, 5, 0, -10>>,
     <<-5, 0, 5, 5, 5, 5, 0, -5>>,
     <<0, 0, 5, 5, 5, 5, 0, -5>>,
     <<-10, 5, 5, 5, 5, 5, 0, -10>>,
     <<-10, 0, 5, 0, 0, 0, 0, -10>>,
     <<-20, -10, -10, -5, -5, -10, -10, -20>> >>

KING_MIDDLE_TABLE_WHITE ==
  << <<-30, -40, -40, -50, -50, -40, -40, -30>>,
     <<-30, -40, -40, -50, -50, -40, -40, -30>>,
     <<-30, -40, -40, -50, -50, -40, -40, -30>>,
     <<-30, -40, -40, -50, -50, -40, -40, -30>>,
     <<-20, -30, -30, -40, -40, -30, -30, -20>>,
     <<-10, -20, -20, -20, -20, -20, -20, -10>>,
     <<20, 20, 0, 0, 0, 0, 20, 20>>,
     <<20, 30, 10, 0, 0, 10, 30, 20>> >>

KING_END_TABLE_WHITE ==
  << <<-50, -40, -30, -20, -20, -30, -40, -50>>,
     <<-30, -20, -10, 0, 0, -10, -20, -30>>,
     <<-30, -10, 20, 30, 30, 20, -10, -30>>,
     <<-30, -10, 30, 40, 40, 30, -10, -30>>,
     <<-30, -10, 30, 40, 40, 30, -10, -30>>,
     <<-30, -10, 20, 30, 30, 20, -10, -30>>,
     <<-30, -30, 0, 0, 0, 0, -30, -30>>,
     <<-50, -30, -30, -30, -30, -30, -30, -50>> >>

PAWN_TABLE_BLACK ==
  << <<0, 0, 0, 0, 0, 0, 0, 0>>,
     <<5, 10, 10, -20, -20, 10, 10, 5>>,
     <<5, -5, -10, 0, 0, -10, -5, 5>>,
     <<0, 0, 0, 20, 20, 0, 0, 0>>,
     <<5, 5, 10, 25, 25, 10, 5, 5>>,
     <<10, 10, 20, 30, 30, 20, 10, 10>>,
     <<50, 50, 50, 50, 50, 50, 50, 50>>,
     <<0, 0, 0, 0, 0, 0, 0, 0>> >>

KNIGHT_TABLE_BLACK ==
  << <<-50, -40, -30, -30, -30, -30, -40, -50>>,
     <<-40, -20, 0, 5, 5, 0, -20, -40>>,
     <<-30, 5, 10, 15, 15, 10, 5, -30>>,
     <<-30, 0, 15, 20, 20, 15, 0, -30>>,
     <<-30, 5, 15, 20, 20, 15, 5, -30>>,
     <<-30, 0, 10, 15, 15, 10, 0, -30>>,
     <<-40, -20, 0, 0, 0, 0, -20, -40>>,
     <<-50, -40, -30, -30, -30, -30, -40, -50>> >>

BISHOP_TABLE_BLACK ==
  << <<-20, -10, -10, -10, -10, -10, -10, -20>>,
     <<-10, 5, 0, 0, 0, 0, 5, -10>>,
     <<-10, 10, 10, 10, 10, 10, 10, -10>>,
     <<-10, 0, 10, 10, 10, 10, 0, -10>>,
     <<-10, 5, 5, 10, 10, 5, 5, -10>>,
     <<-10, 0, 5, 10, 10, 5, 0, -10>>,
     <<-10, 0, 0, 0, 0, 0, 0, -10>>,
     <<-20, -10, -10, -10, -10, -10, -10, -20>> >>

ROOK_TABLE_BLACK ==
  << <<0, 0, 0, 5, 5, 3, 0, 0>>,
     <<-5, 0, 0, 0, 0, 0, 0, -5>>,
     <<-5, 0, 0, 0, 0, 0, 0, -5>>,
     <<-5, 0, 0, 0, 0, 0, 0, -5>>,
     <<-5, 0, 0, 0, 0, 0, 0, -5>>,
     <<-5, 0, 0, 0, 0, 0, 0, -5>>,
     <<5, 10, 10, 10, 10, 10, 10, 5>>,
     <<0, 0, 0, 0, 0, 0, 0, 0>> >>

QUEEN_TABLE_BLACK ==
  << <<-20, -10, -10, -5, -5, -10, -10, -20>>,
     <<-10, 0, 5, 0, 0, 0, 0, -10>>,
     <<-10, 5, 5, 5, 5, 5, 0, -10>>,
     <<0, 0, 5, 5, 5, 5, 0, -5>>,
     <<-5, 0, 5, 5, 5, 5, 0, -5>>,
     <<-10, 0, 5, 5, 5, 5, 0, -10>>,
     <<-10, 0, 0, 0, 0, 0, 0, -10>>,
     <<-20, -10, -10, -5, -5, -10, -10, -20>> >>

KING_MIDDLE_TABLE_BLACK ==
  << <<20, 30, 10, 0, 0, 10, 30, 20>>,
     <<20, 20, 0, 0, 0, 0, 20, 20>>,
     <<-10, -20, -20, -20, -20, -20, -20, -10>>,
     <<-20, -30, -30, -40, -40, -30, -30, -20>>,
     <<-30, -40, -40, -50, -50, -40, -40, -30>>,
     <<-30, -40, -40, -50, -50, -40, -40, -30>>,
     <<-30, -40, -40, -50, -50, -40, -40, -30>>,
     <<-30, -40, -40, -50, -50, -40, -40, -30>> >>

KING_END_TABLE_BLACK ==
  << <<-50, -30, -30, -30, -30, -30, -30, -50>>,
     <<-30, -30, 0, 0, 0, 0, -30, -30>>,
     <<-30, -10, 20, 30, 30, 20, -10, -30>>,
     <<-30, -10, 30, 40, 40, 30, -10, -30>>,
     <<-30, -10, 30, 40, 40, 30, -10, -30>>,
     <<-30, -10, 20, 30, 30, 20, -10, -30>>,
     <<-30, -20, -10, 0, 0, -10, -20, -30>>,
     <<-50, -40, -30, -20, -20, -30, -40, -50>> >>

\* ------------------------------------------------------------------------
\* evaluation.cpp: Evaluation::evaluate
\* ------------------------------------------------------------------------
\* the squares in the order of the loops over m and n
Squares == [k \in 1..64 |-> <<(k - 1) \div 8, (k - 1) % 8>>]

\* the squares on which the loops over m and n find a piece
Occupied(board) == SelectSeq(Squares, LAMBDA sq : At(board, sq[1], sq[2]) # 0)

RECURSIVE Sum(_, _)
Sum(f, k) == IF k = 0 THEN 0 ELSE f[k] + Sum(f, k - 1)

Count(S) == Cardinality(S)

\* score += / score -= of the piece on (m, n): material and table entry
\* (no table entry for a king, which is added after the game phase is known)
MaterialTerm(c, m, n) ==
  CASE c = WHITE_PAWN -> 100 + PAWN_TABLE_WHITE[m + 1][n + 1]
    [] c = WHITE_KNIGHT -> 320 + KNIGHT_TABLE_WHITE[m + 1][n + 1]
    [] c = WHITE_BISHOP -> 330 + BISHOP_TABLE_WHITE[m + 1][n + 1]
    [] c = WHITE_ROOK -> 500 + ROOK_TABLE_WHITE[m + 1][n + 1]
    [] c = WHITE_QUEEN -> 900 + QUEEN_TABLE_WHITE[m + 1][n + 1]
    [] c = BLACK_PAWN -> 0 - 100 - PAWN_TABLE_BLACK[m + 1][n + 1]
    [] c = BLACK_KNIGHT -> 0 - 320 - KNIGHT_TABLE_BLACK[m + 1][n + 1]
    [] c = BLACK_BISHOP -> 0 - 330 - BISHOP_TABLE_BLACK[m + 1][n + 1]
    [] c = BLACK_ROOK -> 0 - 500 - ROOK_TABLE_BLACK[m + 1][n + 1]
    [] c = BLACK_QUEEN -> 0 - 900 - QUEEN_TABLE_BLACK[m + 1][n + 1]
    [] OTHER -> 0

\* the increments of a pawn's mobility counter; sign is 1 for white
PawnMobility(position, m, n, sign) ==
  LET board == position.board
      dir == 0 - sign
      flags == IF sign = 1 THEN position.pawn_two_squares_black
                           ELSE position.pawn_two_squares_white
      start == IF sign = 1 THEN 6 ELSE 1
  IN  (IF At(board, m + dir, n) = 0 THEN 1 ELSE 0)
      + (IF m = start /\ At(board, m + dir, n) = 0
            /\ At(board, m + 2 * dir, n) = 0 THEN 1 ELSE 0)
      + (IF n # 0 /\ At(board, m + dir, n - 1) * sign < 0 THEN 1 ELSE 0)
      + (IF n # 7 /\ At(board, m + dir, n + 1) * sign < 0 THEN 1 ELSE 0)
      + (IF n # 7 /\ At(board, m, n + 1) = 0 - sign /\ Flag(flags, n + 1)
           THEN 1 ELSE 0)
      + (IF n # 0 /\ At(board, m, n - 1) = 0 - sign /\ Flag(flags, n - 1)
           THEN 1 ELSE 0)

\* the increments of the mobility counter made for the piece c on (m, n);
\* a queen adds none
MobilityTerm(position, c, m, n) ==
  LET board == position.board
      sign == IF c > 0 THEN 1 ELSE -1
      p == c * sign
      free(sq) == At(board, sq[1], sq[2]) * sign <= 0
  IN  CASE p = WHITE_PAWN -> PawnMobility(position, m, n, sign)
        [] p = WHITE_KNIGHT ->
             Count({sq \in StepSquares(m, n, knight_move) : free(sq)})
        [] p = WHITE_BISHOP ->
             Count({sq \in RaySquares(board, m, n, bishop_direction) : free(sq)})
        [] p = WHITE_ROOK ->
             Count({sq \in RaySquares(board, m, n, rook_direction) : free(sq)})
        [] p = WHITE_KING ->
             Count({sq \in StepSquares(m, n, every_direction) :
                      /\ free(sq)
                      /\ ~under_control(board, sq[1], sq[2],
                                        IF sign = 1 THEN BLACK ELSE WHITE)})
        [] OTHER -> 0

\* the pawn-structure part: doubled pawns, isolated pawns on files 1..6 and
\* pawn islands; w and b are the pawn counts per file
PawnStructure(w, b) ==
  LET doubled(i) == (IF b[i] > 1 THEN b[i] * 15 ELSE 0)
                    - (IF w[i] > 1 THEN w[i] * 15 ELSE 0)
      lonely(f, i) == i # 1 /\ i # 8 /\ f[i] > 0 /\ f[i - 1] = 0
                      /\ f[i + 1] = 0
      isolated(i) == (IF lonely(b, i) THEN 30 ELSE 0)
                     - (IF lonely(w, i) THEN 30 ELSE 0)
      islands(f) == Count({i \in 1..8 : f[i] > 0 /\ (i = 1 \/ f[i - 1] = 0)})
  IN  Sum([i \in 1..8 |-> doubled(i) + isolated(i)], 8)
      - 10 * (islands(w) - islands(b))

\* the king terms: the last king found of each colour, (0, 0) when there
\* is none, read from the end-game or the middle-game table
KingTerm(board, occ) ==
  LET has(c) == \E x \in 1..Len(occ) : At(board, occ[x][1], occ[x][2]) = c
      n(S) == Count({x \in 1..Len(occ) :
                       At(board, occ[x][1], occ[x][2]) \in S})
      last_of(c) ==
        IF has(c)
          THEN occ[CHOOSE x \in 1..Len(occ) :
                     /\ At(board, occ[x][1], occ[x][2]) = c
                     /\ \A y \in (x + 1)..Len(occ) :
                          At(board, occ[y][1], occ[y][2]) # c]
          ELSE <<0, 0>>
      wk == last_of(WHITE_KING)
      bk == last_of(BLACK_KING)
      is_end_game ==
        \/ ~has(WHITE_QUEEN) /\ ~has(BLACK_QUEEN)
        \/ has(WHITE_QUEEN)
           /\ n({WHITE_KNIGHT, WHITE_BISHOP, WHITE_ROOK}) <= 1
        \/ has(BLACK_QUEEN)
           /\ n({BLACK_KNIGHT, BLACK_BISHOP, BLACK_ROOK}) <= 1
  IN  IF is_end_game
        THEN KING_END_TABLE_WHITE[wk[1] + 1][wk[2] + 1]
             - KING_END_TABLE_BLACK[bk[1] + 1][bk[2] + 1]
        ELSE KING_MIDDLE_TABLE_WHITE[wk[1] + 1][wk[2] + 1]
             - KING_MIDDLE_TABLE_BLACK[bk[1] + 1][bk[2] + 1]

\* the score of a position that is neither stalemate nor checkmate
StaticScore(position, occ) ==
  LET board == position.board
      piece(x) == At(board, occ[x][1], occ[x][2])
      files(c) == [i \in 1..8 |->
                     Count({x \in 1..Len(occ) :
                              piece(x) = c /\ occ[x][2] = i - 1})]
      term(x) ==
        MaterialTerm(piece(x), occ[x][1], occ[x][2])
        + 10 * (IF piece(x) > 0 THEN 1 ELSE -1)
             * MobilityTerm(position, piece(x), occ[x][1], occ[x][2])
  IN  Sum([x \in 1..Len(occ) |-> term(x)], Len(occ))
      + KingTerm(board, occ)
      + PawnStructure(files(WHITE_PAWN), files(BLACK_PAWN))

evaluate(position, depth) ==
  IF is_stalemate(position, BLACK) \/ is_stalemate(position, WHITE) THEN 0
  ELSE IF is_checkmate(position, WHITE) THEN (0 - 100000) - depth
  ELSE IF is_checkmate(position, BLACK) THEN 100000 + depth
  ELSE StaticScore(position, Occupied(position.board))

\* ------------------------------------------------------------------------
\* engine.cpp: the move enumeration shared by make_white_move,
\* make_black_move (root = TRUE) and adv_minimax (root = FALSE).  The four
\* copies in the source differ in the order of the promotion pieces, the
\* order of the two pawn captures, and the squares tested before white's
\* queenside castling; everything else is the same text with the colours
\* exchanged.
\* ------------------------------------------------------------------------
RECURSIVE Cat(_, _)
Cat(f, k) == IF k = 0 THEN <<>> ELSE Cat(f, k - 1) \o f[k]

\* no loop has been left by a break
NoBreak == <<>>

\* the loop a break leaves when it follows a move of the piece on (m, n):
\* the loop over n of row m, or an inner loop of that piece
RowLoop(m) == <<m>>
InnerLoop(m, n, id) == <<m, n, id>>

\* one enumerated move: the resulting position, its coordinates and the
\* loop that a break after it leaves
Child(pos, m, n, to_i, to_j, brk) ==
  [pos |-> pos, from |-> <<m, n>>, to |-> <<to_i, to_j>>, brk |-> brk]

SetBoard(pos, board) == [pos EXCEPT !.board = board]

\* an enumeration that promotes to the queen only
QueenOnly(s, root) ==
  IF s = BLACK THEN <<-5, -5, -5, -5>> ELSE <<5, 5, 5, 5>>

\* for (char i = ...): the promotion pieces in the order tried
PromotionOrder(s, root) ==
  IF s = BLACK THEN <<-5, -4, -3, -2>>
  ELSE IF root THEN <<5, 4, 3, 2>>
  ELSE <<2, 3, 4, 5>>

\* the columns of the two capture blocks in the order they appear
CaptureOrder(s, root) ==
  IF s = WHITE /\ root THEN <<1, -1>> ELSE <<-1, 1>>

\* a pawn step or capture from (m, n) onto (i, j): one move, or one per
\* promotion piece when (i, j) is on the last rank
PawnArrivals(pos, m, n, i, j, s, root) ==
  LET pawn == IF s = WHITE THEN WHITE_PAWN ELSE BLACK_PAWN
      last_rank == IF s = WHITE THEN 0 ELSE 7
      order == PromotionOrder(s, root)
      put(c) == SetBoard(pos, SetCell(SetCell(pos.board, i, j, c), m, n, 0))
  IN  IF i # last_rank
        THEN << Child(put(pawn), m, n, i, j, RowLoop(m)) >>
        ELSE [x \in 1..4 |->
                Child(put(order[x]), m, n, i, j, InnerLoop(m, n, 10 + j))]

\* the en-passant block towards column j
EnPassantChild(pos, m, n, j, s) ==
  LET pawn == IF s = WHITE THEN WHITE_PAWN ELSE BLACK_PAWN
      dir == IF s = WHITE THEN -1 ELSE 1
      flags == IF s = WHITE THEN pos.pawn_two_squares_black
                            ELSE pos.pawn_two_squares_white
  IN  IF j >= 0 /\ j <= 7 /\ At(pos.board, m, j) = 0 - pawn /\ Flag(flags, j)
        THEN << Child(SetBoard(pos,
                   SetCell(SetCell(SetCell(pos.board, m + dir, j, pawn),
                                   m, n, 0), m, j, 0)),
                   m, n, m + dir, j, RowLoop(m)) >>
        ELSE <<>>

PawnChildren(pos, m, n, s, root) ==
  LET board == pos.board
      pawn == IF s = WHITE THEN WHITE_PAWN ELSE BLACK_PAWN
      dir == IF s = WHITE THEN -1 ELSE 1
      start == IF s = WHITE THEN 6 ELSE 1
      sign == IF s = WHITE THEN 1 ELSE -1
      two == SetBoard(
               IF s = WHITE
                 THEN [pos EXCEPT !.pawn_two_squares_white =
                         SetFlag(pos.pawn_two_squares_white, n, TRUE)]
                 ELSE [pos EXCEPT !.pawn_two_squares_black =
                         SetFlag(pos.pawn_two_squares_black, n, TRUE)],
               SetCell(SetCell(board, m + 2 * dir, n, pawn), m, n, 0))
      capture(d) ==
        IF n + d >= 0 /\ n + d <= 7 /\ At(board, m + dir, n + d) * sign < 0
          THEN PawnArrivals(pos, m, n, m + dir, n + d, s, root)
          ELSE <<>>
      order == CaptureOrder(s, root)
  IN  (IF At(board, m + dir, n) = 0
         THEN PawnArrivals(pos, m, n, m + dir, n, s, root) ELSE <<>>)
      \o (IF m = start /\ At(board, m + dir, n) = 0
             /\ At(board, m + 2 * dir, n) = 0
            THEN << Child(two, m, n, m + 2 * dir, n, RowLoop(m)) >>
            ELSE <<>>)
      \o capture(order[1]) \o capture(order[2])
      \o EnPassantChild(pos, m, n, n + 1, s)
      \o EnPassantChild(pos, m, n, n - 1, s)

\* an enumeration without the moves of knights and kings
NoStepChildren(pos, m, n, s, dirs, after) == <<>>

\* the moves of a knight or of a king by one step: for (int k = 0; k < 8; k++)
StepChildren(pos, m, n, s, dirs, after) ==
  LET board == pos.board
      sign == IF s = WHITE THEN 1 ELSE -1
      c == At(board, m, n)
      ok(k) == /\ InBoard(m + dirs[k][1], n + dirs[k][2])
               /\ (IF c * sign = WHITE_KNIGHT
                     THEN under_knight_control(m, n, m + dirs[k][1],
                                               n + dirs[k][2])
                     ELSE under_king_control(m, n, m + dirs[k][1],
                                             n + dirs[k][2]))
               /\ At(board, m + dirs[k][1], n + dirs[k][2]) * sign <= 0
  IN  Cat([k \in 1..8 |->
             IF ok(k)
               THEN << Child(SetBoard(after,
                          SetCell(SetCell(board, m + dirs[k][1],
                                          n + dirs[k][2], c), m, n, 0)),
                          m, n, m + dirs[k][1], n + dirs[k][2],
                          InnerLoop(m, n, 0)) >>
               ELSE <<>>], 8)

\* the moves of a bishop, rook or queen: one while loop per direction k;
\* after is the position with the castling right of a corner rook revoked
SliderChildren(pos, m, n, s, dirs, after) ==
  LET board == pos.board
      sign == IF s = WHITE THEN 1 ELSE -1
      c == At(board, m, n)
      controls(sq) ==
        CASE c * sign = WHITE_BISHOP ->
               under_bishop_control(board, m, n, sq[1], sq[2])
          [] c * sign = WHITE_ROOK ->
               under_rook_control(board, m, n, sq[1], sq[2])
          [] OTHER -> under_queen_control(board, m, n, sq[1], sq[2])
      along(k, r) ==
        Cat([x \in 1..Len(r) |->
               IF controls(r[x]) /\ At(board, r[x][1], r[x][2]) * sign <= 0
                 THEN << Child(SetBoard(after,
                            SetCell(SetCell(board, r[x][1], r[x][2], c),
                                    m, n, 0)),
                            m, n, r[x][1], r[x][2], InnerLoop(m, n, k)) >>
                 ELSE <<>>], Len(r))
  IN  Cat([k \in 1..Len(dirs) |->
             along(k, Ray(board, m + dirs[k][1], n + dirs[k][2],
                          dirs[k][1], dirs[k][2]))], Len(dirs))

\* a store of castling rights that grants both whatever it is given
SetCastleGranted(pos, s, ccs) ==
  IF s = WHITE THEN [pos EXCEPT !.can_castle_white = <<TRUE, TRUE>>]
               ELSE [pos EXCEPT !.can_castle_black = <<TRUE, TRUE>>]

\* the castling rights of s set to ccs
SetCastle(pos, s, ccs) ==
  IF s = WHITE THEN [pos EXCEPT !.can_castle_white = ccs]
               ELSE [pos EXCEPT !.can_castle_black = ccs]

\* the columns whose squares are tested with under_control before castling
\* towards the rook on column rook_j
CastlingTested(s, root, rook_j) ==
  IF rook_j = 7 THEN {4, 5, 6}
  ELSE IF s = WHITE /\ ~root THEN {1, 2, 3}
  ELSE {2, 3, 4}

\* a castling block: the king on its home square (home, 4), the squares
\* between it and the corner empty, a rook of s on the corner, the tested
\* squares not under control and the right still held
CastlingChild(pos, m, n, s, root, rook_j) ==
  LET board == pos.board
      home == IF s = WHITE THEN 7 ELSE 0
      rook == IF s = WHITE THEN WHITE_ROOK ELSE BLACK_ROOK
      between == IF rook_j = 7 THEN {5, 6} ELSE {1, 2, 3}
      target_j == IF rook_j = 7 THEN 6 ELSE 2
      crossed_j == IF rook_j = 7 THEN 5 ELSE 3
      right == IF s = WHITE THEN pos.can_castle_white ELSE pos.can_castle_black
  IN  IF /\ m = home /\ n = 4
         /\ \A j \in between : At(board, home, j) = 0
         /\ At(board, home, rook_j) = rook
         /\ \A j \in CastlingTested(s, root, rook_j) :
              ~under_control(board, home, j, Opponent(s))
         /\ Flag(right, IF rook_j = 7 THEN 1 ELSE 0)
        THEN << Child(SetCastle(SetBoard(pos,
                        castle(board, home, 4, home, target_j, rook_j,
                               crossed_j, rook)), s, <<FALSE, FALSE>>),
                      home, 4, home, target_j, RowLoop(m)) >>
        ELSE <<>>

\* the position after a rook has left (m, n): the right of that corner of
\* the home row is revoked
RookLeaves(pos, m, n, s) ==
  LET home == IF s = WHITE THEN 7 ELSE 0
      right == IF s = WHITE THEN pos.can_castle_white ELSE pos.can_castle_black
  IN  IF m = home /\ n = 0 THEN SetCastle(pos, s, SetFlag(right, 0, FALSE))
      ELSE IF m = home /\ n = 7 THEN SetCastle(pos, s, SetFlag(right, 1, FALSE))
      ELSE pos

\* the moves enumerated for the piece of s on (m, n), in source order
PieceChildren(pos, m, n, s, root) ==
  LET sign == IF s = WHITE THEN 1 ELSE -1
      p == At(pos.board, m, n) * sign
  IN  CASE p = WHITE_PAWN -> PawnChildren(pos, m, n, s, root)
        [] p = WHITE_KNIGHT -> StepChildren(pos, m, n, s, knight_move, pos)
        [] p = WHITE_BISHOP ->
             SliderChildren(pos, m, n, s, bishop_direction, pos)
        [] p = WHITE_ROOK ->
             SliderChildren(pos, m, n, s, rook_direction,
                            RookLeaves(pos, m, n, s))
        [] p = WHITE_QUEEN ->
             SliderChildren(pos, m, n, s, every_direction, pos)
        [] p = WHITE_KING ->
             StepChildren(pos, m, n, s, every_direction,
                          SetCastle(pos, s, <<FALSE, FALSE>>))
             \o CastlingChild(pos, m, n, s, root, 7)
             \o CastlingChild(pos, m, n, s, root, 0)
        [] OTHER -> <<>>

\* every move the loops over m and n build, before the king test
Enumerated(pos, occ, s, root) ==
  Cat([x \in 1..Len(occ) |->
         PieceChildren(pos, occ[x][1], occ[x][2], s, root)], Len(occ))

\* if (!Board::king_is_in_check(possible_position.board, s)): the moves
\* that are searched
Searched(all, s) ==
  SelectSeq(all, LAMBDA c : ~king_is_in_check(c.pos.board, s))

\* the moves searched at a node whose position is pos (its own en-passant
\* flags already reset) with s to move
Children(pos, s, root) ==
  Searched(Enumerated(pos, Occupied(pos.board), s, root), s)

\* ------------------------------------------------------------------------
\* engine.cpp: Engine::adv_minimax, make_white_move and make_black_move
\* ------------------------------------------------------------------------
Max(a, b) == IF a >= b THEN a ELSE b
Min(a, b) == IF a <= b THEN a ELSE b

\* the side whose moves a node enumerates
Mover(maximizingPlayer) == IF maximizingPlayer THEN WHITE ELSE BLACK

\* a test that breaks after every searched move
CutoffAlways(alpha, beta) == TRUE

\* if (beta <= alpha) break;
Cutoff(alpha, beta) == beta <= alpha

\* is the move c inside the loop brk that a break has just left
Skipped(c, brk) ==
  /\ brk # NoBreak
  /\ c.from[1] = brk[1]
  /\ (Len(brk) = 1 \/ c.brk = brk)

\* the position argument as adv_minimax leaves it: a node that is searched
\* resets the en-passant flags of its mover in the caller's object
AfterSearch(position, depth, maximizingPlayer) ==
  IF depth = 0 \/ game_is_over(position) THEN position
  ELSE reset_en_passant(position, Mover(maximizingPlayer))

RECURSIVE adv_minimax(_, _, _, _, _)

\* the local variables of a node while its loops run: the score, the
\* window, the loop left by the last break (NoBreak if the last searched
\* move did not break) and the number of times paths++ has run
Locals(score, alpha, beta, brk, paths) ==
  [score |-> score, alpha |-> alpha, beta |-> beta, brk |-> brk,
   paths |-> paths]

\* the break test with the new window, after the move c has been searched
Continue(c, score, alpha, beta, paths) ==
  Locals(score, alpha, beta,
         IF Cutoff(alpha, beta) THEN c.brk ELSE NoBreak, paths)

\* alpha = max(alpha, score) or beta = min(beta, score)
Narrow(v, c, maximizingPlayer, score, paths) ==
  Continue(c, score,
           IF maximizingPlayer THEN Max(v.alpha, score) ELSE v.alpha,
           IF maximizingPlayer THEN v.beta ELSE Min(v.beta, score), paths)

\* score = max(score, adv_minimax(...)) or min; r is the result of the call
Absorb(v, c, maximizingPlayer, r) ==
  Narrow(v, c, maximizingPlayer,
         IF maximizingPlayer THEN Max(v.score, r.score)
                             ELSE Min(v.score, r.score),
         v.paths + r.paths)

\* one enumerated move c met with the locals v: passed over when it lies
\* in the loop just left by a break, searched otherwise
SearchStep(v, c, depth, maximizingPlayer) ==
  IF Skipped(c, v.brk) THEN v
  ELSE Absorb(v, c, maximizingPlayer,
              adv_minimax(c.pos, depth - 1, ~maximizingPlayer,
                          v.alpha, v.beta))

\* the loops of a node over its moves lo..hi in order, entered with the
\* locals v.  The range is halved so that the evaluation nests only
\* logarithmically deep; paths is at least 1 inside a node, and reading it
\* first completes the moves before lo before those of lo..hi are begun
RECURSIVE SearchRange(_, _, _, _, _, _)
SearchRange(children, lo, hi, depth, maximizingPlayer, v) ==
  IF v.paths < 1 \/ lo > hi THEN v
  ELSE IF lo = hi THEN SearchStep(v, children[lo], depth, maximizingPlayer)
  ELSE SearchRange(children, (lo + hi) \div 2 + 1, hi, depth, maximizingPlayer,
                   SearchRange(children, lo, (lo + hi) \div 2, depth,
                               maximizingPlayer, v))

Search(children, depth, maximizingPlayer, alpha, beta) ==
  SearchRange(children, 1, Len(children), depth, maximizingPlayer,
              Locals(IF maximizingPlayer THEN INT_MIN ELSE INT_MAX,
                     alpha, beta, NoBreak, 1))

\* the returned score, and the number of times paths++ ran in the call
adv_minimax(position, depth, maximizingPlayer, alpha, beta) ==
  IF depth = 0 \/ game_is_over(position)
    THEN [score |-> evaluate(position, depth), paths |-> 1]
    ELSE Search(Children(reset_en_passant(position, Mover(maximizingPlayer)),
                         Mover(maximizingPlayer), FALSE),
                depth, maximizingPlayer, alpha, beta)

\* search depth of make_white_move and make_black_move (4 in engine.h)
DEPTH == 2

\* a root loop that forgets the nodes of the moves it searched
RootAbsorbUncounted(b, i, s, r) ==
  IF (s = WHITE /\ r.score > b.best_score) \/ (s = BLACK /\ r.score < b.best_score)
    THEN [best |-> i, best_score |-> r.score, nodes |-> b.nodes]
    ELSE b

\* if (score > best_score) for white, if (score < best_score) for black:
\* b is the index of the move kept in best_position (0 while nothing has
\* been stored there), its score and the node count so far
RootAbsorb(b, i, s, r) ==
  IF (s = WHITE /\ r.score > b.best_score) \/ (s = BLACK /\ r.score < b.best_score)
    THEN [best |-> i, best_score |-> r.score, nodes |-> b.nodes + r.paths]
    ELSE [b EXCEPT !.nodes = b.nodes + r.paths]

\* the root loops over the moves lo..hi in order, entered with b (halved
\* and sequenced like SearchRange)
RECURSIVE RootRange(_, _, _, _, _)
RootRange(children, lo, hi, s, b) ==
  IF b.nodes < 0 \/ lo > hi THEN b
  ELSE IF lo = hi
    THEN RootAbsorb(b, lo, s,
                    adv_minimax(children[lo].pos, DEPTH - 1, s = BLACK,
                                INT_MIN, INT_MAX))
  ELSE RootRange(children, (lo + hi) \div 2 + 1, hi, s,
                 RootRange(children, lo, (lo + hi) \div 2, s, b))

RootSearch(children, s) ==
  RootRange(children, 1, Len(children), s,
            [best |-> 0,
             best_score |-> IF s = WHITE THEN INT_MIN ELSE INT_MAX,
             nodes |-> 0])

\* the EngineMove fields and the enumerated moves of a root call
RootResult(children, b) ==
  [best |-> b.best, best_score |-> b.best_score, nodes |-> b.nodes,
   children |-> children]

RootCall(children, s) == RootResult(children, RootSearch(children, s))

\* Engine::make_white_move up to the final copy of best_position
make_white_move(position) ==
  RootCall(Children(reset_en_passant(position, WHITE), WHITE, TRUE), WHITE)

\* Engine::make_black_move up to the final copy of best_position
make_black_move(position) ==
  RootCall(Children(reset_en_passant(position, BLACK), BLACK, TRUE), BLACK)

\* best_position: the chosen move's position as its search left it
best_position(r, s) ==
  AfterSearch(r.children[r.best].pos, DEPTH - 1, s = BLACK)

\* move_list.push_back(em): the searched move i with em.eval and em.nodes.
\* em.eval = (float)score / 100 is kept in centipawns: the conversion is
\* exact and strictly increasing for every score of magnitude below 2^24
PushBack(b, i, r) ==
  [move_list |-> Append(b.move_list,
                        [move |-> i, eval |-> r.score,
                         nodes |-> b.nodes + r.paths]),
   nodes |-> b.nodes + r.paths]

\* the loops of get_best_white_moves over the moves lo..hi in order
\* (halved and sequenced like SearchRange)
RECURSIVE ListRange(_, _, _, _)
ListRange(children, lo, hi, b) ==
  IF b.nodes < 0 \/ lo > hi THEN b
  ELSE IF lo = hi
    THEN PushBack(b, lo,
                  adv_minimax(children[lo].pos, DEPTH - 1, FALSE,
                              INT_MIN, INT_MAX))
  ELSE ListRange(children, (lo + hi) \div 2 + 1, hi,
                 ListRange(children, lo, (lo + hi) \div 2, b))

\* if (move.eval >= -0.5f)
Reasonable(em) == em.eval >= 0 - 50

\* the moves of move_list the filter keeps
Kept(move_list) == {x \in 1..Len(move_list) : Reasonable(move_list[x])}

\* the moves of the set S that a descending order of S can put first
First(move_list, S) ==
  {x \in S : \A y \in S : move_list[x].eval >= move_list[y].eval}

\* std::sort with a.eval > b.eval leaves the order of moves of equal eval
\* open: the sequences of the n first moves of S in the descending
\* orders of S
RECURSIVE Prefixes(_, _, _)
Prefixes(move_list, S, n) ==
  IF n = 0 \/ S = {} THEN {<<>>}
  ELSE UNION {{<<move_list[x]>> \o t :
                 t \in Prefixes(move_list, S \ {x}, n - 1)} :
              x \in First(move_list, S)}

\* the filter loop over the sorted list: the kept moves in order, left
\* when top_moves.size() == 3
Filtered(move_list) == Prefixes(move_list, Kept(move_list), 3)

\* if (top_moves.empty() && !move_list.empty())
\*     top_moves.push_back(move_list.front());
Fallback(move_list) == Prefixes(move_list, 1..Len(move_list), 1)

\* the lists get_best_white_moves can return for move_list
TopMoves(move_list) ==
  IF Kept(move_list) = {} /\ Len(move_list) > 0
    THEN Fallback(move_list)
    ELSE Filtered(move_list)

\* Engine::get_best_white_moves up to the sort: the enumerated moves and
\* move_list, with the shared counter at paths_ on entry
get_best_white_moves(position, paths_) ==
  [children |-> Children(reset_en_passant(position, WHITE), WHITE, TRUE),
   move_list |->
     ListRange(Children(reset_en_passant(position, WHITE), WHITE, TRUE), 1,
               Len(Children(reset_en_passant(position, WHITE), WHITE, TRUE)),
               [move_list |-> <<>>, nodes |-> paths_]).move_list]

\* ------------------------------------------------------------------------
\* Positions
\* ------------------------------------------------------------------------
\* a board holding the pieces of the set S of <<row, column, piece>>
Place(S) ==
  [i \in 1..8 |-> [j \in 1..8 |->
     IF \E t \in S : t[1] = i - 1 /\ t[2] = j - 1
       THEN (CHOOSE t \in S : t[1] = i - 1 /\ t[2] = j - 1)[3]
       ELSE EMPTY]]

\* the position a Board is constructed with (board.h)
StartPosition ==
  [board |-> << <<-4, -2, -3, -5, -6, -3, -2, -4>>,
                <<-1, -1, -1, -1, -1, -1, -1, -1>>,
                <<0, 0, 0, 0, 0, 0, 0, 0>>,
                <<0, 0, 0, 0, 0, 0, 0, 0>>,
                <<0, 0, 0, 0, 0, 0, 0, 0>>,
                <<0, 0, 0, 0, 0, 0, 0, 0>>,
                <<1, 1, 1, 1, 1, 1, 1, 1>>,
                <<4, 2, 3, 5, 6, 3, 2, 4>> >>,
   pawn_two_squares_black |-> AllFalse8,
   pawn_two_squares_white |-> AllFalse8,
   can_castle_white |-> <<TRUE, TRUE>>,
   can_castle_black |-> <<TRUE, TRUE>>]

\* a position with the pieces S, no en-passant flag and castling rights
\* ccw, ccb
Position(S, ccw, ccb) ==
  [board |-> Place(S),
   pawn_two_squares_black |-> AllFalse8,
   pawn_two_squares_white |-> AllFalse8,
   can_castle_white |-> ccw,
   can_castle_black |-> ccb]

NoCastle == <<FALSE, FALSE>>
BothCastle == <<TRUE, TRUE>>

\* kings and rooks at home with every castling right, a black knight on
\* g3 covering f1
CastlePosition ==
  Position({ <<7, 4, WHITE_KING>>, <<7, 0, WHITE_ROOK>>, <<7, 7, WHITE_ROOK>>,
             <<0, 4, BLACK_KING>>, <<0, 0, BLACK_ROOK>>, <<0, 7, BLACK_ROOK>>,
             <<5, 6, BLACK_KNIGHT>> }, BothCastle, BothCastle)

\* pawns placed for en passant on both sides: white e5 against black d7,
\* black b4 against white a2
EnPassantPosition ==
  Position({ <<7, 4, WHITE_KING>>, <<0, 4, BLACK_KING>>,
             <<3, 4, WHITE_PAWN>>, <<1, 3, BLACK_PAWN>>,
             <<6, 0, WHITE_PAWN>>, <<4, 1, BLACK_PAWN>> }, NoCastle, NoCastle)

\* black king a8 with no move and not in check: white queen b6
StalematePosition ==
  Position({ <<0, 0, BLACK_KING>>, <<2, 1, WHITE_QUEEN>>,
             <<7, 4, WHITE_KING>> }, NoCastle, NoCastle)

\* white king a1 not in check, b1 and b2 covered by the queen c2, and the
\* knight a2 pinned on the a-file by the rook a8
PinnedPosition ==
  Position({ <<7, 0, WHITE_KING>>, <<6, 0, WHITE_KNIGHT>>,
             <<0, 0, BLACK_ROOK>>, <<6, 2, BLACK_QUEEN>>,
             <<0, 7, BLACK_KING>> }, NoCastle, NoCastle)

\* black king h8 checkmated by the queen g7 guarded by the king g6
CheckmatePosition ==
  Position({ <<0, 7, BLACK_KING>>, <<1, 6, WHITE_QUEEN>>,
             <<2, 6, WHITE_KING>> }, NoCastle, NoCastle)

\* both kings checkmated at once: white king g1 behind f2 g2 h2 checked along
\* the first rank by the rook b1, black king g8 behind f7 g7 h7 checked along
\* the eighth rank by the rook a8; the pawn b7 keeps the rook b1 from b8
DoubleMatePosition ==
  Position({ <<7, 6, WHITE_KING>>, <<6, 5, WHITE_PAWN>>,
             <<6, 6, WHITE_PAWN>>, <<6, 7, WHITE_PAWN>>,
             <<0, 0, WHITE_ROOK>>, <<0, 6, BLACK_KING>>,
             <<1, 5, BLACK_PAWN>>, <<1, 6, BLACK_PAWN>>,
             <<1, 7, BLACK_PAWN>>, <<1, 1, BLACK_PAWN>>,
             <<7, 1, BLACK_ROOK>> }, NoCastle, NoCastle)

\* white king alone on h1, black queen d8 ready to check from h8; the black
\* king f2 covers g1 and g2
QueenMatePosition ==
  Position({ <<7, 7, WHITE_KING>>, <<6, 5, BLACK_KING>>,
             <<0, 3, BLACK_QUEEN>> }, NoCastle, NoCastle)

\* the same with the black king on f3, which leaves g1 to the white king
QueenCheckPosition ==
  Position({ <<7, 7, WHITE_KING>>, <<5, 5, BLACK_KING>>,
             <<0, 3, BLACK_QUEEN>> }, NoCastle, NoCastle)

\* a pawn of each side one step from promotion
PromotionPosition ==
  Position({ <<7, 4, WHITE_KING>>, <<0, 4, BLACK_KING>>,
             <<1, 0, WHITE_PAWN>>, <<6, 7, BLACK_PAWN>>,
             <<0, 1, BLACK_KNIGHT>> }, NoCastle, NoCastle)

\* white king e1 checked by the knight f3, with the rook a1 and the right
\* to castle towards it; b1, c1 and d1 are empty and not under control
CheckedCastlePosition ==
  Position({ <<7, 4, WHITE_KING>>, <<7, 0, WHITE_ROOK>>,
             <<5, 5, BLACK_KNIGHT>>, <<0, 7, BLACK_KING>> },
           <<TRUE, FALSE>>, NoCastle)

\* black has just played c7-c5 past the white pawn b3, which stands beside
\* the black pawn c3
DoubledPawnPosition ==
  [Position({ <<7, 6, WHITE_KING>>, <<0, 6, BLACK_KING>>,
              <<5, 1, WHITE_PAWN>>, <<5, 2, BLACK_PAWN>>,
              <<3, 2, BLACK_PAWN>> }, NoCastle, NoCastle)
     EXCEPT !.pawn_two_squares_black = SetFlag(AllFalse8, 2, TRUE)]

\* black has just played d7-d5 beside the white pawn e5
PassedByPosition ==
  [Position({ <<7, 4, WHITE_KING>>, <<0, 4, BLACK_KING>>,
              <<3, 4, WHITE_PAWN>>, <<3, 3, BLACK_PAWN>> }, NoCastle, NoCastle)
     EXCEPT !.pawn_two_squares_black = SetFlag(AllFalse8, 3, TRUE)]

\* white has just played a2-a4 beside the black pawn b4
AdvancedPosition ==
  [Position({ <<7, 4, WHITE_KING>>, <<0, 4, BLACK_KING>>,
              <<3, 4, WHITE_PAWN>>, <<1, 3, BLACK_PAWN>>,
              <<4, 0, WHITE_PAWN>>, <<4, 1, BLACK_PAWN>> }, NoCastle, NoCastle)
     EXCEPT !.pawn_two_squares_white = SetFlag(AllFalse8, 0, TRUE)]

\* each king at home with one rook in its corner and the right to castle
\* towards it
RookCastlePosition ==
  Position({ <<7, 4, WHITE_KING>>, <<7, 7, WHITE_ROOK>>,
             <<0, 4, BLACK_KING>>, <<0, 0, BLACK_ROOK>> },
           <<FALSE, TRUE>>, <<TRUE, FALSE>>)

RECURSIVE Played(_, _, _)
\* the position after the first k of the clicks <<from row, from column,
\* to row, to column>> were accepted in turn, white first
Played(pos, clicks, k) ==
  IF k = 0 THEN pos
  ELSE LET before == Played(pos, clicks, k - 1)
           c == clicks[k]
       IN  IF k % 2 = 1
             THEN handle_white_move(before, c[1], c[2], c[3], c[4], "q").pos
             ELSE handle_black_move(before, c[1], c[2], c[3], c[4], "q").pos

\* the game 1. b4 c5 2. b5 c4: the black pawn that advanced two squares has
\* moved on and stands beside no white pawn
PassedOnPosition ==
  Played(StartPosition,
         << <<6, 1, 4, 1>>, <<1, 2, 3, 2>>, <<4, 1, 3, 1>>, <<3, 2, 4, 2>> >>,
         4)

\* the game 1. Nf3 Nf6 2. Ne5 g6 3. Nxg6 Bg7 4. Nxh8 a6 5. Nf7: the black
\* rook of h8 was captured and the corner is empty again
RookTakenPosition ==
  Played(StartPosition,
         << <<7, 6, 5, 5>>, <<0, 6, 2, 5>>, <<5, 5, 3, 4>>, <<1, 6, 2, 6>>,
            <<3, 4, 2, 6>>, <<0, 5, 1, 6>>, <<2, 6, 0, 7>>, <<1, 0, 2, 0>>,
            <<0, 7, 1, 5>> >>,
         9)

\* the game 1. e4 e5 2. Qh5: the pawn f7 shields the black king from the
\* white queen
QueenOutPosition ==
  Played(StartPosition,
         << <<6, 4, 4, 4>>, <<1, 4, 3, 4>>, <<7, 3, 3, 7>> >>, 3)

\* the positions handed to Board::load_position, each with the side to move
Puzzles ==
  << [position |-> CastlePosition, turn |-> WHITE],
     [position |-> CastlePosition, turn |-> BLACK],
     [position |-> EnPassantPosition, turn |-> WHITE],
     [position |-> EnPassantPosition, turn |-> BLACK],
     [position |-> StalematePosition, turn |-> BLACK],
     [position |-> PinnedPosition, turn |-> WHITE],
     [position |-> CheckmatePosition, turn |-> BLACK],
     [position |-> DoubleMatePosition, turn |-> WHITE],
     [position |-> QueenMatePosition, turn |-> BLACK],
     [position |-> QueenCheckPosition, turn |-> BLACK],
     [position |-> PromotionPosition, turn |-> WHITE],
     [position |-> PromotionPosition, turn |-> BLACK] >>

\* Board::load_position
load_position(state) ==
  [board |-> state.board,
   pawn_two_squares_black |-> state.pawn_two_squares_black,
   pawn_two_squares_white |-> state.pawn_two_squares_white,
   can_castle_white |-> state.can_castle_white,
   can_castle_black |-> state.can_castle_black]

\* ------------------------------------------------------------------------
\* The two-player game: main's handle_vs_human_moves over one Board
\* ------------------------------------------------------------------------
\* accepted moves explored after construction or after a load
MaxPly == 2

VARIABLES
  position,   \* the Board's board_state
  turn,       \* main's turn: the side whose move is handled next
  game_over,  \* main's game_over
  moves,      \* the accepted moves since construction or the last load
  last,       \* the last call made and what it returned
  paths,      \* engine.cpp's global node counter
  stack       \* the adv_minimax calls in progress, innermost last

vars == <<position, turn, game_over, moves, last, paths, stack>>

PromotionAnswers == {"q", "r", "b", "k"}

Init ==
  /\ position = StartPosition
  /\ turn = WHITE
  /\ game_over = FALSE
  /\ moves = <<>>
  /\ last = [op |-> "Board"]
  /\ paths = 0
  /\ stack = <<>>

\* main's load of a puzzle: game_over is cleared and the position replaced
LoadPosition(k) ==
  /\ position' = load_position(Puzzles[k].position)
  /\ turn' = Puzzles[k].turn
  /\ game_over' = FALSE
  /\ moves' = <<>>
  /\ last' = [op |-> "load_position", puzzle |-> k]
  /\ UNCHANGED <<paths, stack>>

\* what main does after a handler returned a non-empty notation
MateAfter(pos) ==
  \/ king_is_in_check(pos.board, BLACK) /\ is_checkmate(pos, BLACK)
  \/ king_is_in_check(pos.board, WHITE) /\ is_checkmate(pos, WHITE)

\* the entry a move adds to the history: mover, squares, the moved piece
\* and the file of a two-square pawn advance (-1 when it is none)
MoveEntry(s, pre, start_i, start_j, target_i, target_j) ==
  [side |-> s, from |-> <<start_i, start_j>>, to |-> <<target_i, target_j>>,
   piece |-> At(pre.board, start_i, start_j),
   two_squares |->
     IF /\ At(pre.board, start_i, start_j) \in {WHITE_PAWN, BLACK_PAWN}
        /\ start_j = target_j
        /\ (target_i = start_i + 2 \/ target_i = start_i - 2)
       THEN target_j ELSE -1]

\* the history, turn, game_over and record of the last call after a
\* handler of side s returned r for the click
AfterClick(s, op, start_i, start_j, target_i, target_j, user_input, r) ==
  /\ position' = r.pos
  /\ UNCHANGED <<paths, stack>>
  /\ IF r.ok
       THEN /\ turn' = Opponent(s)
            /\ game_over' = MateAfter(r.pos)
            /\ moves' = Append(moves, MoveEntry(s, position, start_i, start_j,
                                                target_i, target_j))
            /\ last' = [op |-> op, ok |-> TRUE, pre |-> position,
                        result |-> r, user_input |-> user_input]
       ELSE /\ UNCHANGED <<turn, game_over, moves>>
            /\ last' = [op |-> op, ok |-> FALSE, pre |-> position,
                        result |-> r]

\* a click on (target_i, target_j) with the white piece on
\* (start_i, start_j) selected; the promotion callback answers only when
\* handle_white_move asks it
WhiteClick(start_i, start_j, target_i, target_j) ==
  /\ <<start_i, start_j>> # <<target_i, target_j>>
  /\ \E q \in {handle_white_move(position, start_i, start_j,
                                 target_i, target_j, "q")} :
     \E user_input \in (IF q.asked THEN PromotionAnswers ELSE {"q"}) :
     \E r \in {IF user_input = "q" THEN q
               ELSE handle_white_move(position, start_i, start_j,
                                      target_i, target_j, user_input)} :
       AfterClick(WHITE, "handle_white_move", start_i, start_j,
                  target_i, target_j, user_input, r)

\* main's handle_vs_human_moves on white's turn: a white piece is selected
\* and another square clicked
HandleWhiteMove ==
  /\ ~game_over
  /\ turn = WHITE
  /\ Len(moves) < MaxPly
  /\ \E start_i \in Idx, start_j \in Idx :
       /\ At(position.board, start_i, start_j) > 0
       /\ \E target_i \in Idx, target_j \in Idx :
            WhiteClick(start_i, start_j, target_i, target_j)

\* a click on (to_x, to_y) with the black piece on (from_x, from_y) selected
BlackClick(from_x, from_y, to_x, to_y) ==
  /\ <<from_x, from_y>> # <<to_x, to_y>>
  /\ \E q \in {handle_black_move(position, from_x, from_y,
                                 to_x, to_y, "q")} :
     \E user_input \in (IF q.asked THEN PromotionAnswers ELSE {"q"}) :
     \E r \in {IF user_input = "q" THEN q
               ELSE handle_black_move(position, from_x, from_y,
                                      to_x, to_y, user_input)} :
       AfterClick(BLACK, "handle_black_move", from_x, from_y,
                  to_x, to_y, user_input, r)

\* main's handle_vs_human_moves on black's turn
HandleBlackMove ==
  /\ ~game_over
  /\ turn = BLACK
  /\ Len(moves) < MaxPly
  /\ \E from_x \in Idx, from_y \in Idx :
       /\ At(position.board, from_x, from_y) < 0
       /\ \E to_x \in Idx, to_y \in Idx :
            BlackClick(from_x, from_y, to_x, to_y)

Next ==
  \/ \E k \in 1..Len(Puzzles) : LoadPosition(k)
  \/ HandleWhiteMove
  \/ HandleBlackMove

Spec == Init /\ [][Next]_vars

\* ------------------------------------------------------------------------
\* The two-player game continued from positions of games played from the
\* starting position
\* ------------------------------------------------------------------------
GameInputs ==
  { [position |-> StartPosition, turn |-> WHITE],
    [position |-> PassedOnPosition, turn |-> WHITE],
    [position |-> RookTakenPosition, turn |-> BLACK],
    [position |-> QueenOutPosition, turn |-> BLACK] }

\* moves holds the moves accepted after the input position
InitGame ==
  \E input \in GameInputs :
     /\ position = input.position
     /\ turn = input.turn
     /\ game_over = FALSE
     /\ moves = <<>>
     /\ last = [op |-> "Board"]
     /\ paths = 0
     /\ stack = <<>>

NextGame ==
  \/ HandleWhiteMove
  \/ HandleBlackMove

SpecGame == InitGame /\ [][NextGame]_vars

\* ------------------------------------------------------------------------
\* The engine: main's perform_engine_move and Engine::adv_minimax applied
\* to loaded positions, beside the validated move entry points
\* ------------------------------------------------------------------------
\* the engine is called while fewer moves than this have been made
MaxEnginePly == 1
\* the engine is called while the node counter is at most this
MaxPaths == 0
\* the depths adv_minimax is called with
MaxDepth == 2

\* the positions the engine is given, each with the side to move
EngineInputs ==
  { [position |-> StartPosition, turn |-> WHITE],
    [position |-> CheckedCastlePosition, turn |-> WHITE],
    [position |-> DoubledPawnPosition, turn |-> WHITE],
    [position |-> PassedByPosition, turn |-> WHITE],
    [position |-> AdvancedPosition, turn |-> BLACK],
    [position |-> EnPassantPosition, turn |-> WHITE],
    [position |-> EnPassantPosition, turn |-> BLACK],
    [position |-> PromotionPosition, turn |-> WHITE],
    [position |-> PromotionPosition, turn |-> BLACK],
    [position |-> RookCastlePosition, turn |-> WHITE],
    [position |-> RookCastlePosition, turn |-> BLACK],
    [position |-> StalematePosition, turn |-> BLACK],
    [position |-> CheckmatePosition, turn |-> BLACK],
    [position |-> PinnedPosition, turn |-> WHITE] }

InitEngine ==
  \E input \in EngineInputs :
     /\ position = load_position(input.position)
     /\ turn = input.turn
     /\ game_over = FALSE
     /\ moves = <<>>
     /\ last = [op |-> "load_position"]
     /\ paths = 0
     /\ stack = <<>>

\* board_state best_position; is read without having been assigned when no
\* move was chosen: the values it can hold are represented by an all-zero
\* object and by the caller's position
Indeterminate(pre) ==
  { [board |-> [i \in 1..8 |-> [j \in 1..8 |-> 0]],
     pawn_two_squares_black |-> AllFalse8,
     pawn_two_squares_white |-> AllFalse8,
     can_castle_white |-> NoCastle,
     can_castle_black |-> NoCastle],
    pre }

\* the history entry of the move an engine call returned; from_i, from_j,
\* to_i and to_j stay -1 when no move was chosen
EngineEntry(s, pre, r) ==
  IF r.best = 0
    THEN [side |-> s, from |-> <<-1, -1>>, to |-> <<-1, -1>>,
          piece |-> EMPTY, two_squares |-> -1]
    ELSE MoveEntry(s, pre, r.children[r.best].from[1],
                   r.children[r.best].from[2], r.children[r.best].to[1],
                   r.children[r.best].to[2])

\* perform_engine_move once make_white_move or make_black_move has returned
\* r and left after in the Board's position
AfterEngineMove(s, r, after) ==
  /\ moves' = Append(moves, EngineEntry(s, position, r))
  /\ last' = [op |-> IF s = WHITE THEN "make_white_move"
                                  ELSE "make_black_move",
              ok |-> r.best # 0, pre |-> position, children |-> r.children,
              best |-> r.best, best_score |-> r.best_score,
              nodes |-> paths + r.nodes]
  /\ paths' = 0
  /\ UNCHANGED stack
  /\ IF MateAfter(after)
       THEN /\ position' = after
            /\ game_over' = TRUE
            /\ turn' = turn
       ELSE /\ position' = reset_en_passant(after, s)
            /\ game_over' = game_over
            /\ turn' = Opponent(s)

\* main's perform_engine_move
PerformEngineMove ==
  /\ ~game_over
  /\ Len(moves) < MaxEnginePly
  /\ paths <= MaxPaths
  /\ \E r \in {IF turn = WHITE THEN make_white_move(position)
                               ELSE make_black_move(position)} :
     \E after \in (IF r.best = 0
                     THEN Indeterminate(reset_en_passant(position, turn))
                     ELSE {best_position(r, turn)}) :
       AfterEngineMove(turn, r, after)

\* Engine::adv_minimax(position, depth, maximizingPlayer, INT_MIN, INT_MAX)
\* on the Board's position with the side to move as maximizingPlayer
AdvMinimax(depth) ==
  /\ Len(moves) < MaxEnginePly
  /\ paths <= MaxPaths
  /\ \E r \in {adv_minimax(position, depth, turn = WHITE, INT_MIN, INT_MAX)} :
       /\ position' = AfterSearch(position, depth, turn = WHITE)
       /\ paths' = paths + r.paths
       /\ last' = [op |-> "adv_minimax", ok |-> FALSE, pre |-> position,
                   depth |-> depth, maximizingPlayer |-> (turn = WHITE),
                   score |-> r.score, paths |-> r.paths]
  /\ UNCHANGED <<turn, game_over, moves, stack>>

\* the "Get Best Move(s)" button of main, which is served on either side's
\* turn: get_best_white_moves on the Board's position, which it takes by
\* reference.  The returned list is drawn once and cleared; top_moves
\* records every list the call can return, one for each order the sort can
\* give to moves of equal eval
GetBestWhiteMoves ==
  /\ Len(moves) < MaxEnginePly
  /\ paths <= MaxPaths
  /\ \E r \in {get_best_white_moves(position, paths)} :
       /\ position' = reset_en_passant(position, WHITE)
       /\ paths' = 0
       /\ last' = [op |-> "get_best_white_moves", ok |-> FALSE,
                   pre |-> position, children |-> r.children,
                   move_list |-> r.move_list,
                   top_moves |-> TopMoves(r.move_list), began |-> paths]
  /\ UNCHANGED <<turn, game_over, moves, stack>>

NextEngine ==
  \/ HandleWhiteMove
  \/ HandleBlackMove
  \/ PerformEngineMove
  \/ GetBestWhiteMoves
  \/ \E depth \in 0..MaxDepth : AdvMinimax(depth)

SpecEngine == InitEngine /\ [][NextEngine]_vars

\* ------------------------------------------------------------------------
\* Properties
\* ------------------------------------------------------------------------
Sides == {WHITE, BLACK}

\* the last call was a validated move entry point and it accepted the move
Accepted ==
  last.op \in {"handle_white_move", "handle_black_move"} /\ last.ok

\* the accepted move the last call made
LastMove == moves[Len(moves)]

FlagsOf(pos, s) ==
  IF s = WHITE THEN pos.pawn_two_squares_white
  ELSE pos.pawn_two_squares_black

CastleOf(pos, s) ==
  IF s = WHITE THEN pos.can_castle_white ELSE pos.can_castle_black

\* side s has a move that its validated entry point accepts in p
LegalMoveExists(p, s) ==
  \E start_i \in Idx, start_j \in Idx :
     /\ (IF s = WHITE THEN At(p.board, start_i, start_j) > 0
                      ELSE At(p.board, start_i, start_j) < 0)
     /\ \E target_i \in Idx, target_j \in Idx :
          IF s = WHITE
            THEN handle_white_move(p, start_i, start_j,
                                   target_i, target_j, "q").ok
            ELSE handle_black_move(p, start_i, start_j,
                                   target_i, target_j, "q").ok

\* the last call was perform_engine_move
EngineMoved == last.op \in {"make_white_move", "make_black_move"}

\* the side that moved in the last accepted or engine move
LastMover == LastMove.side

\* the king of side s stands on a square under control by the opponent
KingUnderControl(board, s) ==
  \E m \in Idx, n \in Idx :
     /\ At(board, m, n) = (IF s = WHITE THEN WHITE_KING ELSE BLACK_KING)
     /\ under_control(board, m, n, Opponent(s))

\* C1: whenever a move is accepted by handle_white_move or
\* handle_black_move, or make_white_move / make_black_move has applied the
\* move it chose, the mover's own king is not under control by the opponent
\* in the resulting position, whatever the piece and also for castling and
\* en-passant captures.
C1_MoverKingNotUnderControl ==
  (Accepted \/ (EngineMoved /\ last.ok))
    => ~KingUnderControl(position.board, LastMover)

\* the engine has answered a check with the move it chose
C1_EngineAnsweredCheck ==
  /\ EngineMoved
  /\ last.ok
  /\ KingUnderControl(last.pre.board, LastMover)
  /\ position.board # last.pre.board

\* the largest and the smallest element of a non-empty set of integers
MaxOf(S) == CHOOSE v \in S : \A w \in S : w <= v
MinOf(S) == CHOOSE v \in S : \A w \in S : v <= w

\* the value of a node all of whose moves are searched: the evaluation at
\* depth 0 or when the game is over, else the largest (smallest) value of
\* the moves of the side to move, or the initial score when there is none
RECURSIVE Minimax(_, _, _)
ValueOver(children, depth, maximizingPlayer) ==
  IF maximizingPlayer
    THEN MaxOf({INT_MIN} \cup {Minimax(children[x].pos, depth - 1, FALSE) :
                                x \in 1..Len(children)})
    ELSE MinOf({INT_MAX} \cup {Minimax(children[x].pos, depth - 1, TRUE) :
                                x \in 1..Len(children)})

Minimax(position_, depth, maximizingPlayer) ==
  IF depth = 0 \/ game_is_over(position_)
    THEN evaluate(position_, depth)
    ELSE ValueOver(Children(reset_en_passant(position_,
                                             Mover(maximizingPlayer)),
                            Mover(maximizingPlayer), FALSE),
                   depth, maximizingPlayer)

\* the number of nodes of the tree Minimax visits
RECURSIVE Nodes(_, _, _)
NodesOver(children, depth, maximizingPlayer) ==
  Sum([x \in 1..Len(children) |->
         Nodes(children[x].pos, depth - 1, ~maximizingPlayer)],
      Len(children))

Nodes(position_, depth, maximizingPlayer) ==
  IF depth = 0 \/ game_is_over(position_)
    THEN 1
    ELSE 1 + NodesOver(Children(reset_en_passant(position_,
                                                 Mover(maximizingPlayer)),
                                Mover(maximizingPlayer), FALSE),
                       depth, maximizingPlayer)

\* C2: adv_minimax called with alpha = INT_MIN and beta = INT_MAX returns
\* the score of the plain minimax over the same moves and the same
\* evaluation, and the best score of make_white_move / make_black_move is
\* the minimax value of the root over the moves the root enumerates.
C2_FullWindowEqualsMinimax ==
  /\ last.op = "adv_minimax"
       => last.score = Minimax(last.pre, last.depth, last.maximizingPlayer)
  /\ EngineMoved
       => last.best_score
            = ValueOver(last.children, DEPTH, last.op = "make_white_move")

\* adv_minimax has searched two plies and left moves out after a cutoff
C2_SearchedWithCutoff ==
  /\ last.op = "adv_minimax"
  /\ last.depth = MaxDepth
  /\ last.paths < Nodes(last.pre, last.depth, last.maximizingPlayer)

\* C3: is_checkmate(p, s) is true exactly when the king of s is in check
\* in p and s has no legal move; in particular it is false whenever the
\* king of s is not in check.
C3_CheckmateIffCheckedAndStuck ==
  \A s \in Sides :
     is_checkmate(position, s)
       <=> (king_is_in_check(position.board, s)
            /\ ~LegalMoveExists(position, s))

\* C4: is_stalemate(p, s) is true exactly when the king of s is not in
\* check in p and s has no legal move, a legal move being one that does not
\* leave the own king in check.
C4_StalemateIffUncheckedAndStuck ==
  \A s \in Sides :
     is_stalemate(position, s)
       <=> (~king_is_in_check(position.board, s)
            /\ ~LegalMoveExists(position, s))

\* C5: when the move before the last accepted move was a two-square pawn
\* advance, the en-passant flag it set reads false once the opponent's
\* next move (the last accepted move) has been accepted.
C5_FlagClearedByOpponentsNextMove ==
  Len(moves) >= 2 =>
    LET advance == moves[Len(moves) - 1]
    IN  (advance.two_squares # -1 /\ LastMove.side = Opponent(advance.side))
          => ~Flag(FlagsOf(position, advance.side), advance.two_squares)

\* C5 is about a run in which a two-square advance was answered
C5_AdvanceAnswered ==
  /\ Len(moves) >= 2
  /\ moves[Len(moves) - 1].two_squares # -1
  /\ Accepted

\* C6: an accepted two-square pawn advance leaves the advancing side's
\* en-passant flags true on the pawn's file and false on every other file;
\* an accepted move that is no two-square advance turns no en-passant flag
\* of either side from false to true.
C6_AdvanceSetsExactlyItsFile ==
  Accepted =>
    IF LastMove.two_squares # -1
      THEN \A n \in Idx :
             Flag(FlagsOf(position, LastMove.side), n)
               <=> (n = LastMove.two_squares)
      ELSE \A s \in Sides, n \in Idx :
             Flag(FlagsOf(position, s), n) => Flag(FlagsOf(last.pre, s), n)

\* a white two-square advance answered by a black two-square advance
C6_BothSidesAdvanced ==
  /\ Accepted
  /\ Len(moves) = 2
  /\ moves[1].two_squares # -1 /\ moves[1].side = WHITE
  /\ moves[2].two_squares # -1 /\ moves[2].side = BLACK

\* the home row of side s
HomeRow(s) == IF s = WHITE THEN 7 ELSE 0

\* the move mv is a king going from its e-file home square to the g-file or
\* c-file square of its home row
IsCastling(mv) ==
  /\ mv.piece = (IF mv.side = WHITE THEN WHITE_KING ELSE BLACK_KING)
  /\ mv.from = <<HomeRow(mv.side), 4>>
  /\ mv.to \in {<<HomeRow(mv.side), 6>>, <<HomeRow(mv.side), 2>>}

Corners ==
  { [sq |-> <<7, 0>>, side |-> WHITE, wing |-> 0],
    [sq |-> <<7, 7>>, side |-> WHITE, wing |-> 1],
    [sq |-> <<0, 0>>, side |-> BLACK, wing |-> 0],
    [sq |-> <<0, 7>>, side |-> BLACK, wing |-> 1] }

\* C9: after an accepted move in which a rook leaves its corner home
\* square, or in which a piece standing on a corner is captured, the
\* castling right of that corner is false; after an accepted king move both
\* castling rights of the mover are false.
C9_CornerEventsRevokeCastling ==
  Accepted =>
    /\ \A c \in Corners :
          \/ /\ LastMove.from = c.sq
             /\ LastMove.piece
                  = (IF c.side = WHITE THEN WHITE_ROOK ELSE BLACK_ROOK)
          \/ /\ LastMove.to = c.sq
             /\ At(last.pre.board, c.sq[1], c.sq[2]) # EMPTY
          => ~Flag(CastleOf(position, c.side), c.wing)
    /\ LastMove.piece \in {WHITE_KING, BLACK_KING}
         => /\ ~Flag(CastleOf(position, LastMove.side), 0)
            /\ ~Flag(CastleOf(position, LastMove.side), 1)

\* the moves the last engine call generated and searched at its root: the
\* enumeration of make_white_move / make_black_move, or the first level of
\* adv_minimax
Generated ==
  IF EngineMoved THEN last.children
  ELSE IF /\ last.op = "adv_minimax"
          /\ last.depth > 0
          /\ ~game_is_over(last.pre)
    THEN Children(reset_en_passant(last.pre, Mover(last.maximizingPlayer)),
                  Mover(last.maximizingPlayer), FALSE)
  ELSE <<>>

\* the side whose moves the last engine call generated
GeneratedFor ==
  IF last.op = "make_white_move" THEN WHITE
  ELSE IF last.op = "make_black_move" THEN BLACK
  ELSE Mover(last.maximizingPlayer)

\* on board the king of s may castle to column to_j of its home row: the
\* squares between king and rook are empty and the king's start, transit
\* and landing squares are not under control by the opponent
CastlingAllowed(board, s, to_j) ==
  /\ \A j \in (IF to_j = 6 THEN {5, 6} ELSE {1, 2, 3}) :
        At(board, HomeRow(s), j) = EMPTY
  /\ \A j \in (IF to_j = 6 THEN {4, 5, 6} ELSE {4, 3, 2}) :
        ~under_control(board, HomeRow(s), j, Opponent(s))

\* the generated move c of side s is a castling move on board
CastlingGenerated(board, s, c) ==
  /\ At(board, c.from[1], c.from[2])
       = (IF s = WHITE THEN WHITE_KING ELSE BLACK_KING)
  /\ c.from = <<HomeRow(s), 4>>
  /\ c.to \in {<<HomeRow(s), 6>>, <<HomeRow(s), 2>>}

\* C7: castling is accepted by the validated move entry points, and
\* generated by the enumeration of make_white_move / make_black_move and by
\* adv_minimax, only if every square between the king and the rook is empty
\* and none of the king's start, transit and landing squares is under
\* control by the opponent.
C7_CastlingOnlyWhenAllowed ==
  /\ (Accepted /\ IsCastling(LastMove))
       => CastlingAllowed(last.pre.board, LastMove.side, LastMove.to[2])
  /\ \A x \in 1..Len(Generated) :
        CastlingGenerated(last.pre.board, GeneratedFor, Generated[x])
          => CastlingAllowed(last.pre.board, GeneratedFor, Generated[x].to[2])

\* the rank a pawn of s captures en passant from, and its direction
EnPassantRow(s) == IF s = WHITE THEN 3 ELSE 4
Forward(s) == IF s = WHITE THEN -1 ELSE 1
PawnOf(s) == IF s = WHITE THEN WHITE_PAWN ELSE BLACK_PAWN

\* a pawn of s goes from from to the empty square to of another column
EnPassantMove(board, s, from, to) ==
  /\ At(board, from[1], from[2]) = PawnOf(s)
  /\ to[2] # from[2]
  /\ At(board, to[1], to[2]) = EMPTY

\* the en-passant capture from from to to is earned in pre and leaves
\* board: the pawn stood on the en-passant rank beside an enemy pawn on the
\* adjacent file whose two-square flag is set, and exactly that pawn is
\* removed
EnPassantEarned(pre, board, s, from, to) ==
  /\ from[1] = EnPassantRow(s)
  /\ to[1] = from[1] + Forward(s)
  /\ to[2] \in {from[2] - 1, from[2] + 1}
  /\ At(pre.board, from[1], to[2]) = PawnOf(Opponent(s))
  /\ Flag(FlagsOf(pre, Opponent(s)), to[2])
  /\ board = SetCell(SetCell(SetCell(pre.board, to[1], to[2], PawnOf(s)),
                             from[1], from[2], EMPTY),
                     from[1], to[2], EMPTY)

\* C10: an en-passant capture is accepted by the validated move entry
\* points, and generated by the enumeration of make_white_move /
\* make_black_move and by adv_minimax, only when the capturing pawn stands
\* on the en-passant rank (row 3 for white, row 4 for black) beside an enemy
\* pawn on the adjacent file whose two-square flag is set, and it removes
\* exactly that pawn.
C10_EnPassantOnlyWhenEarned ==
  /\ (Accepted /\ EnPassantMove(last.pre.board, LastMove.side,
                                LastMove.from, LastMove.to))
       => EnPassantEarned(last.pre, position.board, LastMove.side,
                          LastMove.from, LastMove.to)
  /\ \A x \in 1..Len(Generated) :
        EnPassantMove(last.pre.board, GeneratedFor,
                      Generated[x].from, Generated[x].to)
          => EnPassantEarned(last.pre, Generated[x].pos.board, GeneratedFor,
                             Generated[x].from, Generated[x].to)

\* the last call was a validated move entry point and it rejected the move
Rejected ==
  last.op \in {"handle_white_move", "handle_black_move"} /\ ~last.ok

\* C11: when handle_white_move or handle_black_move rejects a move, the
\* stored position is what it was before the call: every board cell, the
\* four castling rights and the en-passant flags of both sides.
C11_RejectionLeavesPosition ==
  Rejected =>
    /\ position.board = last.pre.board
    /\ position.can_castle_white = last.pre.can_castle_white
    /\ position.can_castle_black = last.pre.can_castle_black
    /\ position.pawn_two_squares_white = last.pre.pawn_two_squares_white
    /\ position.pawn_two_squares_black = last.pre.pawn_two_squares_black

\* a black move that its piece can make was rejected because it leaves the
\* black king in check
C11_RejectedForCheck ==
  /\ Rejected
  /\ last.op = "handle_black_move"
  /\ last.result.move_is_legal

\* the last rank of side s
LastRank(s) == IF s = WHITE THEN 0 ELSE 7

\* the pieces a pawn of side s can be promoted to
PromotionPieces(s) ==
  IF s = WHITE THEN {WHITE_KNIGHT, WHITE_BISHOP, WHITE_ROOK, WHITE_QUEEN}
               ELSE {BLACK_KNIGHT, BLACK_BISHOP, BLACK_ROOK, BLACK_QUEEN}

\* the move mv brings a pawn to its last rank
ReachesLastRank(mv) ==
  /\ mv.piece = PawnOf(mv.side)
  /\ mv.to[1] = LastRank(mv.side)

\* C12: promotion is triggered, and the promotion-choice source consulted
\* (once), exactly when an accepted move brings a pawn to its last rank
\* (row 0 in handle_white_move, row 7 in handle_black_move); an accepted
\* pawn move that does not reach the last rank and any rejected move
\* neither set the promotion flag nor consult the source; and after a
\* promotion the target square holds a knight, bishop, rook or queen of the
\* mover.
C12_PromotionOnlyOnAcceptedLastRank ==
  /\ Accepted =>
       /\ last.result.asked <=> ReachesLastRank(LastMove)
       /\ last.op = "handle_white_move"
            => (last.result.promote_pawn <=> ReachesLastRank(LastMove))
       /\ ReachesLastRank(LastMove)
            => At(position.board, LastMove.to[1], LastMove.to[2])
                 \in PromotionPieces(LastMove.side)
  /\ Rejected =>
       /\ ~last.result.asked
       /\ last.op = "handle_white_move" => ~last.result.promote_pawn

\* C12, amended: as C12, except that a rejected move may leave the promotion
\* flag of handle_white_move set, and only when pawn_move had validated the
\* move and it was rejected for leaving the white king in check; no
\* rejected move consults the source.
C12_PromotionOnAcceptedLastRank ==
  /\ Accepted =>
       /\ last.result.asked <=> ReachesLastRank(LastMove)
       /\ last.op = "handle_white_move"
            => (last.result.promote_pawn <=> ReachesLastRank(LastMove))
       /\ ReachesLastRank(LastMove)
            => At(position.board, LastMove.to[1], LastMove.to[2])
                 \in PromotionPieces(LastMove.side)
  /\ Rejected =>
       /\ ~last.result.asked
       /\ (last.op = "handle_white_move" /\ last.result.promote_pawn)
            => last.result.move_is_legal

\* both sides have promoted a pawn, black first
C12_BothSidesPromoted ==
  /\ Accepted
  /\ Len(moves) = 2
  /\ ReachesLastRank(moves[1]) /\ moves[1].side = BLACK
  /\ ReachesLastRank(moves[2]) /\ moves[2].side = WHITE
  /\ last.result.asked

\* side s is stalemated in p: its king is not in check and it has no legal
\* move
Stalemated(p, s) ==
  ~KingUnderControl(p.board, s) /\ ~LegalMoveExists(p, s)

\* side s is checkmated in p: its king is in check and it has no legal move
Checkmated(p, s) ==
  KingUnderControl(p.board, s) /\ ~LegalMoveExists(p, s)

\* C13: Evaluation::evaluate(p, d) is 0 whenever a side is stalemated in p,
\* -(100000 + d) when white is checkmated and 100000 + d when black is
\* checkmated, so that a larger remaining depth gives a mate score of
\* strictly larger magnitude.
C13_TerminalScores ==
  \A d \in 0..MaxDepth :
     IF \E s \in Sides : Stalemated(position, s)
       THEN evaluate(position, d) = 0
     ELSE IF Checkmated(position, WHITE)
       THEN evaluate(position, d) = 0 - (100000 + d)
     ELSE IF Checkmated(position, BLACK)
       THEN evaluate(position, d) = 100000 + d
     ELSE TRUE

\* the position with the board flipped vertically (row r to row 7 - r), the
\* colour of every piece exchanged, and the castling rights and en-passant
\* flags of the two sides exchanged
mirror(p) ==
  [board |-> [i \in 1..8 |-> [j \in 1..8 |-> 0 - p.board[9 - i][j]]],
   pawn_two_squares_black |-> p.pawn_two_squares_white,
   pawn_two_squares_white |-> p.pawn_two_squares_black,
   can_castle_white |-> p.can_castle_black,
   can_castle_black |-> p.can_castle_white]

\* C14: for every structurally valid position p and every depth d,
\* Evaluation::evaluate(mirror(p), d) = -Evaluation::evaluate(p, d).
C14_MirrorNegates ==
  \A d \in 0..MaxDepth :
     evaluate(mirror(position), d) = 0 - evaluate(position, d)

\* the moves the last call enumerated and searched for white: the root
\* enumeration of make_white_move and get_best_white_moves, or the first
\* level of adv_minimax for the maximizing player
WhiteEnumerated ==
  IF last.op \in {"make_white_move", "get_best_white_moves"}
    THEN last.children
  ELSE IF /\ last.op = "adv_minimax"
          /\ last.maximizingPlayer
          /\ last.depth > 0
          /\ ~game_is_over(last.pre)
    THEN Children(reset_en_passant(last.pre, WHITE), WHITE, FALSE)
  ELSE <<>>

\* the enumerated moves whose moving piece is piece
MovesOf(children, board, piece) ==
  {x \in 1..Len(children) :
     At(board, children[x].from[1], children[x].from[2]) = piece}

\* the enumerated move c is one the validated entry point accepts in pre,
\* with the same resulting board
LegalWhiteMove(pre, c) ==
  \E user_input \in {"n", "b", "r", "q"} :
     /\ handle_white_move(pre, c.from[1], c.from[2],
                          c.to[1], c.to[2], user_input).ok
     /\ handle_white_move(pre, c.from[1], c.from[2],
                          c.to[1], c.to[2], user_input).pos.board = c.pos.board

\* the enumerated move c of a pawn of board ends as another piece
PromotionGenerated(board, c) ==
  /\ At(board, c.from[1], c.from[2]) = WHITE_PAWN
  /\ At(c.pos.board, c.to[1], c.to[2]) # WHITE_PAWN

\* C15: from the standard starting position the root enumeration for white
\* (make_white_move, and the list get_best_white_moves builds before
\* filtering) consists of exactly 20 legal moves, 16 pawn moves and 4
\* knight moves, none of them a castling move or a promotion.
C15_StartEnumeration ==
  (/\ last.op \in {"make_white_move", "get_best_white_moves"}
   /\ last.pre = StartPosition)
    => /\ Len(last.children) = 20
       /\ \A x, y \in 1..20 :
             (/\ last.children[x].from = last.children[y].from
              /\ last.children[x].to = last.children[y].to) => x = y
       /\ Cardinality(MovesOf(last.children, StartPosition.board,
                              WHITE_PAWN)) = 16
       /\ Cardinality(MovesOf(last.children, StartPosition.board,
                              WHITE_KNIGHT)) = 4
       /\ \A x \in 1..20 :
             /\ LegalWhiteMove(StartPosition, last.children[x])
             /\ ~CastlingGenerated(StartPosition.board, WHITE,
                                   last.children[x])
             /\ ~PromotionGenerated(StartPosition.board, last.children[x])
       /\ (last.op = "get_best_white_moves"
             => /\ Len(last.move_list) = 20
                /\ \A x \in 1..20 : last.move_list[x].move = x)

\* make_white_move has searched from the starting position and chosen a move
C15_SearchedFromStart ==
  /\ last.op = "make_white_move"
  /\ last.pre = StartPosition
  /\ last.ok

\* white's only pawn stands on (1, n) of board, the square in front of it
\* is empty and the advance does not leave white's king in check
LonePawnAdvances(board, n) ==
  /\ At(board, 1, n) = WHITE_PAWN
  /\ \A i, j \in Idx : At(board, i, j) = WHITE_PAWN => (i = 1 /\ j = n)
  /\ At(board, 0, n) = EMPTY
  /\ ~king_is_in_check(SetCell(SetCell(board, 0, n, WHITE_QUEEN), 1, n, 0),
                       WHITE)

\* the enumerated advances of the pawn on (1, n)
Advances(children, n) ==
  {x \in 1..Len(children) :
     children[x].from = <<1, n>> /\ children[x].to = <<0, n>>}

\* C16: where white's only pawn stands on row 1 with the square in front of
\* it empty, the enumeration of the one-square advance yields four branches,
\* one for each promotion piece (knight, bishop, rook, queen), provided the
\* advance does not leave white's king in check.
C16_FourPromotionBranches ==
  \A n \in Idx :
     (/\ last.op \in {"make_white_move", "get_best_white_moves",
                      "adv_minimax"}
        /\ (last.op = "adv_minimax"
              => last.maximizingPlayer /\ last.depth > 0
                   /\ ~game_is_over(last.pre))
        /\ LonePawnAdvances(last.pre.board, n))
       => /\ Cardinality(Advances(WhiteEnumerated, n)) = 4
          /\ \A piece \in {WHITE_KNIGHT, WHITE_BISHOP, WHITE_ROOK,
                            WHITE_QUEEN} :
                \E x \in Advances(WhiteEnumerated, n) :
                   WhiteEnumerated[x].pos.board
                     = SetCell(SetCell(last.pre.board, 0, n, piece), 1, n, 0)

\* adv_minimax has enumerated white's moves where the lone pawn advances
C16_LonePawnSearched ==
  /\ last.op = "adv_minimax"
  /\ last.maximizingPlayer
  /\ last.depth > 0
  /\ ~game_is_over(last.pre)
  /\ \E n \in Idx : LonePawnAdvances(last.pre.board, n)

\* white's king stands alone on h1 and is attacked along the h-file by a
\* black queen on h8
LoneKingChecked(board) ==
  /\ At(board, 7, 7) = WHITE_KING
  /\ \A i, j \in Idx : At(board, i, j) > 0 => (i = 7 /\ j = 7)
  /\ At(board, 0, 7) = BLACK_QUEEN
  /\ \A i \in 1..6 : At(board, i, 7) = EMPTY

\* C17 as stated: where white's king stands alone on h1 and is attacked by
\* a black queen on h8, with no white piece available to block or capture,
\* Board::is_checkmate for white reports checkmate.
C17_LoneKingCheckmated ==
  LoneKingChecked(position.board) => is_checkmate(position, WHITE)

\* C17 amended: where white's king stands alone on h1 and is attacked by a
\* black queen on h8, with no white piece available to block or capture and
\* with g1 and g2 under black's control, Board::is_checkmate for white
\* reports checkmate.
C17_CorneredKingCheckmated ==
  (/\ LoneKingChecked(position.board)
   /\ under_control(position.board, 7, 6, BLACK)
   /\ under_control(position.board, 6, 6, BLACK))
    => is_checkmate(position, WHITE)

\* black's queen has moved to h8 against the lone king on h1 whose squares
\* g1 and g2 are covered, and main has ended the game
C17_QueenMated ==
  /\ Accepted
  /\ last.op = "handle_black_move"
  /\ LastMove.to = <<0, 7>>
  /\ LoneKingChecked(position.board)
  /\ under_control(position.board, 7, 6, BLACK)
  /\ under_control(position.board, 6, 6, BLACK)
  /\ game_over

\* C18: get_best_white_moves returns a list ordered by descending score
\* that contains at most 3 moves; every returned move has a score of at
\* least -0.5 pawns, except that when no legal white move reaches -0.5 the
\* list consists of exactly the single best-scoring legal move; the list is
\* empty only when white has no legal move.
C18_TopMovesFiltered ==
  last.op = "get_best_white_moves"
    => /\ last.top_moves # {}
       /\ \A top \in last.top_moves :
             /\ Len(top) <= 3
             /\ \A k \in 1..Len(top) :
                   \E x \in 1..Len(last.move_list) :
                      /\ top[k] = last.move_list[x]
                      /\ LegalWhiteMove(last.pre, last.children[x])
             /\ \A k, l \in 1..Len(top) :
                   k < l => top[k].eval >= top[l].eval
             /\ IF \E x \in 1..Len(last.move_list) :
                      last.move_list[x].eval >= 0 - 50
                  THEN /\ Len(top) >= 1
                       /\ \A k \in 1..Len(top) : top[k].eval >= 0 - 50
                  ELSE IF Len(last.move_list) > 0
                    THEN /\ Len(top) = 1
                         /\ \A x \in 1..Len(last.move_list) :
                               top[1].eval >= last.move_list[x].eval
                  ELSE top = <<>>
             /\ top = <<>> => ~LegalMoveExists(last.pre, WHITE)

TopLevelCalls == {"make_white_move", "make_black_move", "get_best_white_moves"}

\* the number of adv_minimax invocations below the root moves children of
\* side s, each searched on its own with the full window
Invocations(children, s) ==
  Sum([x \in 1..Len(children) |->
         adv_minimax(children[x].pos, DEPTH - 1, s = BLACK,
                     INT_MIN, INT_MAX).paths],
      Len(children))

\* C19: over any sequence of top-level calls (make_white_move,
\* make_black_move, get_best_white_moves) the shared node counter is zero
\* when each top-level call begins (it is zero initially, every top-level
\* call leaves it zero and the move handlers leave it alone), it is
\* incremented exactly once per adv_minimax invocation, and the node count
\* reported with the move of make_white_move / make_black_move is the
\* number of adv_minimax invocations made during that call alone.
C19_NodeCounter ==
  /\ paths = 0
  /\ [][/\ last'.op \in TopLevelCalls => paths' = 0
        /\ last'.op \in {"handle_white_move", "handle_black_move"}
             => paths' = paths
        /\ last'.op = "adv_minimax"
             => /\ paths' = paths + last'.paths
                /\ (last'.depth = 0 \/ game_is_over(position))
                     => last'.paths = 1
                /\ (last'.depth = 1 /\ ~game_is_over(position))
                     => last'.paths
                          = 1 + Len(Children(
                                  reset_en_passant(position, turn),
                                  turn, FALSE))
        /\ (last'.op \in {"make_white_move", "make_black_move"}
              /\ paths = 0)
             => last'.nodes = Invocations(last'.children, turn)
        /\ (last'.op = "get_best_white_moves" /\ paths = 0
              /\ Len(last'.move_list) > 0)
             => last'.move_list[Len(last'.move_list)].nodes
                  = Invocations(last'.children, WHITE)]_vars

\* make_white_move or make_black_move has reported the nodes of a search
\* that went below its root moves, and the counter is back at zero
C19_NodesReported ==
  /\ EngineMoved
  /\ last.ok
  /\ last.nodes > Len(last.children)
  /\ paths = 0

\* C20: the position handed to a search is read-only at the root:
\* get_best_white_moves returns with the supplied position unchanged (every
\* board cell, castling-rights flag and en-passant flag of both sides), and
\* adv_minimax applies moves only to clones, so that a node's own board
\* cells and castling rights are the same before and after its children
\* are searched.
C20_RootReadOnly ==
  /\ last.op = "get_best_white_moves" => position = last.pre
  /\ last.op = "adv_minimax"
       => /\ position.board = last.pre.board
          /\ position.can_castle_white = last.pre.can_castle_white
          /\ position.can_castle_black = last.pre.can_castle_black

\* ------------------------------------------------------------------------
\* puzzle.cpp: positions set up from FEN strings
\* ------------------------------------------------------------------------
\* reset_board_state(bs): an empty board, no flag, no castling right
reset_board_state ==
  [board |-> [i \in 1..8 |-> [j \in 1..8 |-> 0]],
   pawn_two_squares_black |-> AllFalse8,
   pawn_two_squares_white |-> AllFalse8,
   can_castle_white |-> <<FALSE, FALSE>>,
   can_castle_black |-> <<FALSE, FALSE>>]

piece_char_to_int(c) ==
  CASE c = "P" -> 1 [] c = "N" -> 2 [] c = "B" -> 3
    [] c = "R" -> 4 [] c = "Q" -> 5 [] c = "K" -> 6
    [] c = "p" -> -1 [] c = "n" -> -2 [] c = "b" -> -3
    [] c = "r" -> -4 [] c = "q" -> -5 [] c = "k" -> -6
    [] OTHER -> 0

\* the characters '0'..'9', 'a'..'h'
DigitChars == <<"0", "1", "2", "3", "4", "5", "6", "7", "8", "9">>
FileChars == <<"a", "b", "c", "d", "e", "f", "g", "h">>

isdigit(c) == \E d \in 1..Len(DigitChars) : DigitChars[d] = c

\* c - '0' for a digit, c - 'a' for a file letter
MinusZero(c) == (CHOOSE d \in 1..Len(DigitChars) : DigitChars[d] = c) - 1
MinusA(c) == (CHOOSE d \in 1..Len(FileChars) : FileChars[d] = c) - 1

\* one turn of the loop over boardPart: cur holds board, row and col
BoardChar(cur, c) ==
  IF c = "/"
    THEN [cur EXCEPT !.row = cur.row + 1, !.col = 0]
  ELSE IF isdigit(c)
    THEN [cur EXCEPT !.col = cur.col + MinusZero(c)]
  ELSE [cur EXCEPT !.board = SetCell(cur.board, cur.row, cur.col,
                                     piece_char_to_int(c)),
                   !.col = cur.col + 1]

RECURSIVE BoardPart(_, _, _)
\* the loop over the first k characters of boardPart, from board
BoardPart(boardPart, k, board) ==
  IF k = 0 THEN [board |-> board, row |-> 0, col |-> 0]
  ELSE BoardChar(BoardPart(boardPart, k - 1, board), boardPart[k])

\* the loop over the castling field: every right is false before it
CastlingRights(castling, first, second) ==
  << \E k \in 1..Len(castling) : castling[k] = first,
     \E k \in 1..Len(castling) : castling[k] = second >>

\* the flags of the en-passant field for the rank index tested
EnPassantFlags(enpassant, rank) ==
  IF enpassant # <<"-">> /\ MinusZero(enpassant[2]) - 1 = rank
    THEN SetFlag(AllFalse8, MinusA(enpassant[1]), TRUE)
    ELSE AllFalse8

\* set_board_from_fen(fen, bs): the board cells the board field names are
\* overwritten, both flag arrays and the castling rights are rebuilt
set_board_from_fen(fen, bs) ==
  [board |-> BoardPart(fen.boardPart, Len(fen.boardPart), bs.board).board,
   pawn_two_squares_black |-> EnPassantFlags(fen.enpassant, 2),
   pawn_two_squares_white |-> EnPassantFlags(fen.enpassant, 5),
   can_castle_white |-> CastlingRights(fen.castling, "Q", "K"),
   can_castle_black |-> CastlingRights(fen.castling, "q", "k")]

\* the FEN fields set_board_from_fen uses, as sequences of characters
Fens ==
  <<
     \* the starting position
     [boardPart |-> <<"r", "n", "b", "q", "k", "b", "n", "r", "/", "p", "p", "p", "p", "p", "p", "p", "p", "/", "8", "/", "8", "/", "8", "/", "8", "/", "P", "P", "P", "P", "P", "P", "P", "P", "/", "R", "N", "B", "Q", "K", "B", "N", "R">>,
      castling |-> <<"K", "Q", "k", "q">>,
      enpassant |-> <<"-">>],
     \* after 1. e4: the target square e3 lies behind the white pawn
     [boardPart |-> <<"r", "n", "b", "q", "k", "b", "n", "r", "/", "p", "p", "p", "p", "p", "p", "p", "p", "/", "8", "/", "8", "/", "4", "P", "3", "/", "8", "/", "P", "P", "P", "P", "1", "P", "P", "P", "/", "R", "N", "B", "Q", "K", "B", "N", "R">>,
      castling |-> <<"K", "Q", "k", "q">>,
      enpassant |-> <<"e", "3">>],
     \* white pawn e5, black has just played d7-d5: the target square is d6
     [boardPart |-> <<"r", "n", "b", "q", "k", "b", "n", "r", "/", "p", "p", "p", "1", "p", "p", "p", "p", "/", "8", "/", "3", "p", "P", "3", "/", "8", "/", "8", "/", "P", "P", "P", "P", "1", "P", "P", "P", "/", "R", "N", "B", "Q", "K", "B", "N", "R">>,
      castling |-> <<"K", "Q", "k", "q">>,
      enpassant |-> <<"d", "6">>],
     \* black pawn b4, white has just played c2-c4
     [boardPart |-> <<"4", "k", "3", "/", "8", "/", "8", "/", "8", "/", "1", "p", "P", "5", "/", "8", "/", "8", "/", "4", "K", "3">>,
      castling |-> <<"-">>,
      enpassant |-> <<"c", "3">>],
     \* white may castle on both wings
     [boardPart |-> <<"4", "k", "3", "/", "8", "/", "8", "/", "8", "/", "8", "/", "8", "/", "8", "/", "R", "3", "K", "2", "R">>,
      castling |-> <<"K", "Q">>,
      enpassant |-> <<"-">>],
     \* black may castle on both wings
     [boardPart |-> <<"r", "3", "k", "2", "r", "/", "8", "/", "8", "/", "8", "/", "8", "/", "8", "/", "8", "/", "4", "K", "3">>,
      castling |-> <<"k", "q">>,
      enpassant |-> <<"-">>],
     \* a white pawn on its last rank (a8)
     [boardPart |-> <<"P", "3", "k", "3", "/", "8", "/", "8", "/", "8", "/", "8", "/", "8", "/", "8", "/", "4", "K", "3">>,
      castling |-> <<"-">>,
      enpassant |-> <<"-">>],
     \* a black pawn on its last rank (a1)
     [boardPart |-> <<"4", "k", "3", "/", "8", "/", "8", "/", "8", "/", "8", "/", "8", "/", "8", "/", "p", "3", "K", "3">>,
      castling |-> <<"-">>,
      enpassant |-> <<"-">>],
     \* no black king
     [boardPart |-> <<"8", "/", "8", "/", "8", "/", "8", "/", "8", "/", "8", "/", "4", "P", "3", "/", "4", "K", "3">>,
      castling |-> <<"-">>,
      enpassant |-> <<"-">>],
     \* no white king
     [boardPart |-> <<"4", "k", "3", "/", "4", "p", "3", "/", "8", "/", "8", "/", "8", "/", "8", "/", "8", "/", "8">>,
      castling |-> <<"-">>,
      enpassant |-> <<"-">>],
     \* black stalemated
     [boardPart |-> <<"k", "7", "/", "8", "/", "1", "Q", "6", "/", "8", "/", "8", "/", "8", "/", "8", "/", "4", "K", "3">>,
      castling |-> <<"-">>,
      enpassant |-> <<"-">>],
     \* black checkmated
     [boardPart |-> <<"7", "k", "/", "6", "Q", "1", "/", "6", "K", "1", "/", "8", "/", "8", "/", "8", "/", "8", "/", "8">>,
      castling |-> <<"-">>,
      enpassant |-> <<"-">>] >>
\* ------------------------------------------------------------------------
\* The board cells the scans of a position read and write. Every set below
\* holds cells the call certainly touches, as <<row, column>>: the cells of
\* the scan up to the first return the position forces.
\* ------------------------------------------------------------------------
\* the first square, in the order of the loops over m and n, holding one of
\* the pieces, 0 when there is none
FirstSquare(board, pieces) ==
  LET S == {k \in 1..64 : At(board, Squares[k][1], Squares[k][2]) \in pieces}
  IN  IF S = {} THEN 0 ELSE CHOOSE k \in S : \A x \in S : k <= x

PiecesOf(s) == IF s = WHITE THEN 1..6 ELSE {0 - c : c \in 1..6}
KingOf(s) == IF s = WHITE THEN WHITE_KING ELSE BLACK_KING

\* p.board[m][n] for the first k squares of the loops, all 64 when k = 0
ScannedTo(k) == {Squares[x] : x \in 1..(IF k = 0 THEN 64 ELSE k)}

\* p.board[m + dir][n], the first cell the pawn block of side s reads
PawnFront(m, n, s) == <<m + Forward(s), n>>

\* no pawn of s stands on the last rank of s
NoLastRankPawn(board, s) ==
  \A n \in Idx : At(board, LastRank(s), n) # PawnOf(s)

\* the scan of is_checkmate(p, s) and of is_stalemate(p, s) once s is found
\* not to be in check: the squares up to the first piece of s, and the cell
\* in front of it when it is a pawn
ScanCells(board, s) ==
  LET k == FirstSquare(board, PiecesOf(s))
  IN  ScannedTo(k) \cup
        (IF k # 0 /\ At(board, Squares[k][1], Squares[k][2]) = PawnOf(s)
           THEN {PawnFront(Squares[k][1], Squares[k][2], s)}
           ELSE {})

\* king_is_in_check(board, s): the squares up to the king when it is found
\* under control, every square otherwise
CheckCells(board, s) ==
  IF king_is_in_check(board, s)
    THEN ScannedTo(FirstSquare(board, {KingOf(s)}))
    ELSE ScannedTo(0)

CheckmateCells(p, s) == ScanCells(p.board, s)

StalemateCells(p, s) ==
  CheckCells(p.board, s) \cup
    (IF king_is_in_check(p.board, s) THEN {} ELSE ScanCells(p.board, s))

\* the loops of evaluate over every square: the cell in front of each pawn
LoopCells(board) ==
  ScannedTo(0) \cup
    {PawnFront(sq[1], sq[2], s) :
       sq \in {q \in Idx \X Idx : At(board, q[1], q[2]) = WHITE_PAWN},
       s \in {WHITE}} \cup
    {PawnFront(sq[1], sq[2], s) :
       sq \in {q \in Idx \X Idx : At(board, q[1], q[2]) = BLACK_PAWN},
       s \in {BLACK}}

\* the terminal tests evaluate makes before its loops, in their order
TerminalTests ==
  << <<"is_stalemate", BLACK>>, <<"is_stalemate", WHITE>>,
     <<"is_checkmate", WHITE>>, <<"is_checkmate", BLACK>> >>

RECURSIVE EvaluateCells(_, _)
\* evaluate(p, depth) from its k-th terminal test on: a test of a
\* side with a pawn on its last rank has no defined result, so what
\* follows it is not counted
EvaluateCells(p, k) ==
  IF k > Len(TerminalTests) THEN LoopCells(p.board)
  ELSE LET t == TerminalTests[k]
           stale == t[1] = "is_stalemate"
           cells == IF stale THEN StalemateCells(p, t[2])
                             ELSE CheckmateCells(p, t[2])
       IN  IF ~NoLastRankPawn(p.board, t[2]) THEN cells
           ELSE IF (IF stale THEN is_stalemate(p, t[2])
                             ELSE is_checkmate(p, t[2]))
             THEN cells
           ELSE cells \cup EvaluateCells(p, k + 1)

\* the move generation of make_white_move / make_black_move for side s:
\* every square is visited and every pawn of s has its block entered
GenerationCells(p, s) ==
  ScannedTo(0) \cup
    {PawnFront(sq[1], sq[2], s) :
       sq \in {q \in Idx \X Idx : At(p.board, q[1], q[2]) = PawnOf(s)}}

\* every result of the scans is defined: no pawn stands on its last rank
Defined(p) ==
  \A s \in {WHITE, BLACK} : NoLastRankPawn(p.board, s)

\* ------------------------------------------------------------------------
\* The core functions applied to positions set up from FEN strings
\* ------------------------------------------------------------------------
InitCore ==
  /\ position = reset_board_state
  /\ turn = WHITE
  /\ game_over = FALSE
  /\ moves = <<>>
  /\ last = [op |-> "reset_board_state"]
  /\ paths = 0
  /\ stack = <<>>

\* what a call that only reads the position leaves alone
Pure == UNCHANGED <<position, turn, game_over, moves, paths, stack>>

\* a puzzle is loaded: reset_board_state, then set_board_from_fen
LoadPuzzle(k) ==
  /\ position' = set_board_from_fen(Fens[k], reset_board_state)
  /\ last' = [op |-> "set_board_from_fen", fen |-> Fens[k]]
  /\ UNCHANGED <<turn, game_over, moves, paths, stack>>

Evaluate(depth) ==
  /\ last' = [op |-> "evaluate", depth |-> depth,
              cells |-> EvaluateCells(position, 1),
              defined |-> Defined(position),
              score |-> IF Defined(position) THEN evaluate(position, depth)
                                             ELSE 0]
  /\ Pure

IsCheckmate(s) ==
  /\ last' = [op |-> "is_checkmate", side |-> s,
              cells |-> CheckmateCells(position, s),
              defined |-> NoLastRankPawn(position.board, s),
              result |-> IF NoLastRankPawn(position.board, s)
                           THEN is_checkmate(position, s) ELSE FALSE]
  /\ Pure

IsStalemate(s) ==
  /\ last' = [op |-> "is_stalemate", side |-> s,
              cells |-> StalemateCells(position, s),
              defined |-> NoLastRankPawn(position.board, s),
              result |-> IF NoLastRankPawn(position.board, s)
                           THEN is_stalemate(position, s) ELSE FALSE]
  /\ Pure

Generate(s) ==
  /\ last' = [op |-> "generate", side |-> s,
              cells |-> GenerationCells(position, s)]
  /\ Pure

NextCore ==
  \/ \E k \in 1..Len(Fens) : LoadPuzzle(k)
  \/ \E depth \in 0..MaxDepth : Evaluate(depth)
  \/ \E s \in {WHITE, BLACK} : IsCheckmate(s)
  \/ \E s \in {WHITE, BLACK} : IsStalemate(s)
  \/ \E s \in {WHITE, BLACK} : Generate(s)

SpecCore == InitCore /\ [][NextCore]_vars

\* the last call touched these cells
Scans == {"evaluate", "is_checkmate", "is_stalemate", "generate"}

\* C21: evaluate, is_checkmate, is_stalemate and the move generation touch
\* board cells only at rows and columns within 0..7, whatever structurally
\* valid position they are given
C21_CellsWithinBoard ==
  last.op \in Scans => \A c \in last.cells : InBoard(c[1], c[2])

\* C23: set_board_from_fen sets, for a target square on rank 3, exactly the
\* white flag of its file, for a target square on rank 6 exactly the black
\* flag of its file, and no flag for '-'
C23_FenEnPassantFlags ==
  last.op = "set_board_from_fen" =>
    LET ep == last.fen.enpassant
        only(n) == SetFlag(AllFalse8, n, TRUE)
    IN  /\ ep = <<"-">> =>
             /\ position.pawn_two_squares_white = AllFalse8
             /\ position.pawn_two_squares_black = AllFalse8
        /\ ep # <<"-">> /\ ep[2] = "3" =>
             /\ position.pawn_two_squares_white = only(MinusA(ep[1]))
             /\ position.pawn_two_squares_black = AllFalse8
        /\ ep # <<"-">> /\ ep[2] = "6" =>
             /\ position.pawn_two_squares_black = only(MinusA(ep[1]))
             /\ position.pawn_two_squares_white = AllFalse8

\* C30: is_black_move_legal, when it accepts a black move and commits it,
\* leaves every white en-passant flag as it was before the call, also when
\* the move is a two-square pawn advance
C30_BlackCommitKeepsWhiteFlags ==
  last.op = "handle_black_move" /\ last.ok =>
    last.result.committed.pawn_two_squares_white
      = last.pre.pawn_two_squares_white

\* the squares of board that hold a piece of side s
PiecesOn(board, s) ==
  {sq \in Idx \X Idx : At(board, sq[1], sq[2]) \in PiecesOf(s)}

\* the move mv of a pawn is a one- or two-square straight advance into
\* empty squares of board
StraightAdvance(board, mv) ==
  LET d == Forward(mv.side)
  IN  /\ mv.to[2] = mv.from[2]
      /\ \/ mv.to[1] = mv.from[1] + d
         \/ /\ mv.to[1] = mv.from[1] + 2 * d
            /\ At(board, mv.from[1] + d, mv.from[2]) = 0
      /\ At(board, mv.to[1], mv.to[2]) = 0

\* the move mv of a pawn is a diagonal step that takes exactly one enemy
\* piece off board: the one on the target square, or the pawn beside the
\* moving pawn when the target square is empty
DiagonalCapture(board, after, mv) ==
  LET enemy == Opponent(mv.side)
      taken == PiecesOn(board, enemy) \ PiecesOn(after, enemy)
  IN  /\ mv.to[1] = mv.from[1] + Forward(mv.side)
      /\ mv.to[2] \in {mv.from[2] - 1, mv.from[2] + 1}
      /\ \/ /\ mv.to \in PiecesOn(board, enemy)
            /\ taken = {mv.to}
         \/ /\ At(board, mv.to[1], mv.to[2]) = 0
            /\ At(board, mv.from[1], mv.to[2]) = PawnOf(enemy)
            /\ taken = {<<mv.from[1], mv.to[2]>>}

\* C25: an accepted pawn move is a one- or two-square straight advance
\* into empty squares or a diagonal step that captures exactly one enemy
\* piece; a pawn never steps diagonally onto an empty square without
\* removing an enemy pawn
C25_PawnMovesWellFormed ==
  Accepted /\ LastMove.piece = PawnOf(LastMove.side) =>
    \/ /\ StraightAdvance(last.pre.board, LastMove)
       /\ PiecesOn(position.board, Opponent(LastMove.side))
            = PiecesOn(last.pre.board, Opponent(LastMove.side))
    \/ DiagonalCapture(last.pre.board, position.board, LastMove)

\* the number of kings of side s on board
Kings(board, s) ==
  Cardinality({sq \in Idx \X Idx : At(board, sq[1], sq[2]) = KingOf(s)})

RookOf(s) == IF s = WHITE THEN WHITE_ROOK ELSE BLACK_ROOK

\* the corner column on the wing the castling king moves to
CornerOf(mv) == IF mv.to[2] > mv.from[2] THEN 7 ELSE 0

\* C28: a castling move is accepted only if a rook of the mover stands on
\* the corner of that wing, and no accepted move increases the number of
\* pieces of either side
C28_CastlingNeedsRook ==
  Accepted =>
    /\ IsCastling(LastMove) =>
         At(last.pre.board, HomeRow(LastMove.side), CornerOf(LastMove))
           = RookOf(LastMove.side)
    /\ \A s \in Sides :
         Cardinality(PiecesOn(position.board, s))
           <= Cardinality(PiecesOn(last.pre.board, s))

\* the calls that make a move
MoveCalls ==
  {"handle_white_move", "handle_black_move", "make_white_move",
   "make_black_move"}

\* C26: across an accepted move of a handler or of the engine, a castling
\* right that is false stays false
C26_CastlingRightsNeverReturn ==
  [][last'.op \in MoveCalls /\ last'.ok =>
       \A s \in Sides : \A k \in 1..2 :
          ~CastleOf(position, s)[k] => ~CastleOf(position', s)[k]]_vars

\* the engine has made a move that cost the mover a castling right while
\* another right of the position was already lost
C26_EngineGaveUpRight ==
  /\ EngineMoved
  /\ last.ok
  /\ \E s \in Sides : \E k \in 1..2 :
       CastleOf(last.pre, s)[k] /\ ~CastleOf(position, s)[k]
  /\ \E s \in Sides : \E k \in 1..2 : ~CastleOf(last.pre, s)[k]

\* C29: when the side to move has no legal move, make_white_move and
\* make_black_move leave the board cells and the castling rights of the
\* position unchanged and return from and to coordinates of -1
C29_NoMoveLeavesPosition ==
  EngineMoved /\ ~LegalMoveExists(last.pre, LastMover) =>
    /\ position.board = last.pre.board
    /\ \A s \in Sides : CastleOf(position, s) = CastleOf(last.pre, s)
    /\ LastMove.from = <<-1, -1>>
    /\ LastMove.to = <<-1, -1>>

\* ------------------------------------------------------------------------
\* engine.cpp: the search call by call.  stack holds one frame per call in
\* progress: the root call of make_white_move, make_black_move,
\* get_best_white_moves or adv_minimax first, the innermost adv_minimax last
\* ------------------------------------------------------------------------
\* calls nested deeper than this are not followed
MaxStack == 4

RootCalls == {"make_white_move", "make_black_move", "get_best_white_moves"}

\* the side whose moves the call op enumerates
FrameMover(op, maximizingPlayer) ==
  IF op = "adv_minimax" THEN Mover(maximizingPlayer)
  ELSE IF op = "make_black_move" THEN BLACK ELSE WHITE

\* if (depth == 0 || game_is_over(position)) return score;
Leaf(op, p, depth) == op = "adv_minimax" /\ (depth = 0 \/ game_is_over(p))

\* the locals of the call op before its loops: score and window of
\* adv_minimax, best_score of make_white_move and make_black_move,
\* move_list of get_best_white_moves; began is paths on entry
Entry(op, p, depth, maximizingPlayer, alpha, beta, began) ==
  IF Leaf(op, p, depth)
    THEN Locals(evaluate(p, depth), alpha, beta, NoBreak, 1)
  ELSE IF op = "adv_minimax"
    THEN Locals(IF maximizingPlayer THEN INT_MIN ELSE INT_MAX, alpha, beta,
                NoBreak, 1)
  ELSE IF op = "get_best_white_moves"
    THEN [move_list |-> <<>>, nodes |-> began]
  ELSE [best |-> 0,
        best_score |-> IF op = "make_white_move" THEN INT_MIN ELSE INT_MAX,
        nodes |-> 0]

\* the frame of a call: its arguments, whether it returns before its
\* loops, the moves its loops reach, the index k of the move being
\* searched (0 before the first) and its locals v
Frame(op, p, depth, maximizingPlayer, alpha, beta, began) ==
  [op |-> op, pos |-> p, depth |-> depth,
   maximizingPlayer |-> maximizingPlayer,
   leaf |-> Leaf(op, p, depth),
   children |->
     IF Leaf(op, p, depth) THEN <<>>
     ELSE Children(reset_en_passant(p, FrameMover(op, maximizingPlayer)),
                   FrameMover(op, maximizingPlayer), op \in RootCalls),
   k |-> 0,
   v |-> Entry(op, p, depth, maximizingPlayer, alpha, beta, began)]

\* the next move the loops of frame f search: the first one after k that
\* does not lie in the loop just left by a break; 0 when the loops end
NextChild(f) ==
  LET S == {j \in (f.k + 1)..Len(f.children) :
              f.op \in RootCalls \/ ~Skipped(f.children[j], f.v.brk)}
  IN  IF S = {} THEN 0 ELSE CHOOSE j \in S : \A x \in S : j <= x

\* a recursion that passes its own depth on
SameDepth(depth) == depth

\* adv_minimax(possible_position, depth - 1, ...)
ChildDepth(depth) == depth - 1

\* the call made for the next move of frame f
ChildFrame(f, j) ==
  IF f.op \in RootCalls
    THEN Frame("adv_minimax", f.children[j].pos, ChildDepth(f.depth),
               f.op = "make_black_move", INT_MIN, INT_MAX, 0)
    ELSE Frame("adv_minimax", f.children[j].pos, ChildDepth(f.depth),
               ~f.maximizingPlayer, f.v.alpha, f.v.beta, 0)

\* the locals of frame f after the call for its move k returned r
Returned(f, r) ==
  IF f.op = "adv_minimax"
    THEN Absorb(f.v, f.children[f.k], f.maximizingPlayer, r)
  ELSE IF f.op = "get_best_white_moves" THEN PushBack(f.v, f.k, r)
  ELSE RootAbsorb(f.v, f.k, FrameMover(f.op, f.maximizingPlayer), r)

Top == stack[Len(stack)]

\* the positions searched step by step, each with the side to move
SearchInputs ==
  { [position |-> EnPassantPosition, turn |-> WHITE],
    [position |-> EnPassantPosition, turn |-> BLACK],
    [position |-> StalematePosition, turn |-> BLACK],
    [position |-> CheckmatePosition, turn |-> BLACK] }

InitSearch ==
  \E input \in SearchInputs :
     /\ position = load_position(input.position)
     /\ turn = input.turn
     /\ game_over = FALSE
     /\ moves = <<>>
     /\ last = [op |-> "load_position"]
     /\ paths = 0
     /\ stack = <<>>

\* a call is entered on the loaded position: make_white_move or
\* make_black_move for the side to move, get_best_white_moves, or
\* adv_minimax with the side to move as maximizingPlayer
Call(op, depth) ==
  /\ stack = <<>>
  /\ last.op = "load_position"
  /\ op = "make_white_move" => turn = WHITE
  /\ op = "make_black_move" => turn = BLACK
  /\ op \in RootCalls => depth = DEPTH
  /\ stack' = << Frame(op, position, depth, turn = WHITE,
                       INT_MIN, INT_MAX, paths) >>
  /\ paths' = IF op = "adv_minimax" THEN paths + 1 ELSE paths
  /\ UNCHANGED <<position, turn, game_over, moves, last>>

\* the innermost call reaches its next move and calls adv_minimax for it
Descend ==
  /\ stack # <<>>
  /\ Len(stack) < MaxStack
  /\ ~Top.leaf
  /\ NextChild(Top) # 0
  /\ stack' = Append([stack EXCEPT ![Len(stack)].k = NextChild(Top)],
                     ChildFrame(Top, NextChild(Top)))
  /\ paths' = paths + 1
  /\ UNCHANGED <<position, turn, game_over, moves, last>>

\* the innermost call has no move left to search
Done(f) == f.leaf \/ NextChild(f) = 0

\* an inner adv_minimax returns its score to the call that made it
Return ==
  /\ Len(stack) > 1
  /\ Done(Top)
  /\ stack' = [SubSeq(stack, 1, Len(stack) - 1)
                 EXCEPT ![Len(stack) - 1].v =
                   Returned(stack[Len(stack) - 1],
                            [score |-> Top.v.score, paths |-> Top.v.paths])]
  /\ UNCHANGED <<position, turn, game_over, moves, last, paths>>

\* the root call returns: adv_minimax its score, make_white_move and
\* make_black_move the chosen move with best_position copied into the
\* position, get_best_white_moves its list
Finish ==
  /\ Len(stack) = 1
  /\ Done(Top)
  /\ stack' = <<>>
  /\ UNCHANGED <<turn, game_over, moves>>
  /\ CASE Top.op = "adv_minimax" ->
            /\ position' = AfterSearch(position, Top.depth,
                                       Top.maximizingPlayer)
            /\ paths' = paths
            /\ last' = [op |-> "adv_minimax", ok |-> FALSE,
                        pre |-> position, depth |-> Top.depth,
                        maximizingPlayer |-> Top.maximizingPlayer,
                        score |-> Top.v.score, paths |-> Top.v.paths]
       [] Top.op = "get_best_white_moves" ->
            /\ position' = reset_en_passant(position, WHITE)
            /\ paths' = 0
            /\ last' = [op |-> "get_best_white_moves", ok |-> FALSE,
                        pre |-> position, children |-> Top.children,
                        move_list |-> Top.v.move_list,
                        top_moves |-> TopMoves(Top.v.move_list),
                        began |-> 0]
       [] OTHER ->
            /\ \E after \in
                  (IF Top.v.best = 0
                     THEN Indeterminate(reset_en_passant(position, turn))
                     ELSE {best_position(RootResult(Top.children, Top.v),
                                         turn)}) :
                 position' = after
            /\ paths' = 0
            /\ last' = [op |-> Top.op, ok |-> Top.v.best # 0,
                        pre |-> position, children |-> Top.children,
                        best |-> Top.v.best,
                        best_score |-> Top.v.best_score,
                        nodes |-> paths]

Step == Descend \/ Return \/ Finish

NextSearch ==
  \/ \E depth \in 0..MaxDepth : Call("adv_minimax", depth)
  \/ \E op \in RootCalls : Call(op, DEPTH)
  \/ Descend
  \/ Return
  \/ Finish

\* a call that has been entered keeps running: its next step is taken
SpecSearch == InitSearch /\ [][NextSearch]_vars /\ WF_vars(Step)

\* C22: every call of adv_minimax, make_white_move, make_black_move and
\* get_best_white_moves returns: each recursive call has the depth of its
\* caller less one and a depth of at least 0, and a call in progress leads
\* to the return of the root call
C22_SearchTerminates ==
  /\ [](\A i \in 2..Len(stack) :
           /\ stack[i].depth = stack[i - 1].depth - 1
           /\ stack[i].depth >= 0)
  /\ (stack # <<>>) ~> (stack = <<>>)

\* a root call has returned after calls nested down to depth 0
C22_DeepCallReturned ==
  /\ stack = <<>>
  /\ last.op \in RootCalls
  /\ last.ok
  /\ last.nodes > Len(last.children)

\* C24: once beta <= alpha holds in a call of adv_minimax, that call
\* searches no further move: it makes no adv_minimax call after the cutoff
C24_NoSearchAfterCutoff ==
  [][stack # <<>> /\ Len(stack') > Len(stack) /\ Top.op = "adv_minimax"
       => ~Cutoff(Top.v.alpha, Top.v.beta)]_vars

====
